---- MODULE Spec2Model ----
(***************************************************************************)
(* A state-machine model of roam-block-reconciler: BlockReconciler         *)
(* (reconcile, removeObsolete, updateExistingBlock), ChildrenReconciler    *)
(* (syncChildren), the pacing helpers (delay, yieldToMain) and a backend   *)
(* behind the RoamApiAdapter interface.                                    *)
(*                                                                         *)
(* Every await of the source is a step boundary: an action is the code     *)
(* that runs from one await to the next.  The awaited thing (a backend     *)
(* call, a delay, a yield) is the variable inflight; the backend and the   *)
(* host's timer and scheduler resolve it.                                   *)
(***************************************************************************)
EXTENDS Integers, Sequences, FiniteSets, TLC

\* ------------------------------------------------------------------ bounds

\* Longest item list handed to reconcile.
MaxItems == 2
\* Most top-level nodes under the parent before the first pass.
MaxExisting == 2
\* Most existing children, and most desired children, in a direct syncChildren.
MaxExistingChildren == 2
MaxNewChildren == 2

\* ------------------------------------------------------- program constants

DEFAULT_YIELD_BATCH_SIZE == 3
\* options.yieldBatchSize as the caller configures it for the top-level loop.
ConfiguredYieldBatchSize == 2

\* ------------------------------------------------------------------- texts
\* A text is what the caller's extraction functions can tell apart in a
\* string: its shape (an item marker, a "key:: value" property, a special
\* container, anything else), the id or key it carries, and the rest.

Absent == "absent"

ItemText(id, body) == [kind |-> "item", key |-> id, val |-> body]
PropText(key, val) == [kind |-> "prop", key |-> key, val |-> val]
SpecialText(val) == [kind |-> "special", key |-> "", val |-> val]
PlainText(val) == [kind |-> "plain", key |-> "", val |-> val]

\* A payload: text and an optional children field.
Payload(text, hasChildren, children) ==
  [text |-> text, hasChildren |-> hasChildren, children |-> children]
Leaf(text) == Payload(text, FALSE, <<>>)

\* payload.children ?? []
ChildrenOf(p) == IF p.hasChildren THEN p.children ELSE <<>>

\* A tree node: text, uid, children (absent children read as empty).
Node(uid, text, children) == [uid |-> uid, text |-> text, children |-> children]

\* The uid of the page the items are reconciled under.
ParentUid == 0

\* ----------------------------------------------- the caller's configuration

\* extractId: (item) => item.id
ExtractId(item) == item.id

\* buildBlock: text carries the item's id marker and content; children are
\* the item's children, absent when the item has none.
BuildBlock(item) ==
  Payload(ItemText(item.id, item.content), item.hasChildren, item.children)

\* extractIdFromBlock: the id of the marker, undefined without a marker.
ExtractIdFromBlock(node) ==
  IF node.text.kind = "item" THEN node.text.key ELSE Absent

\* preserveWhen: node.text.includes("{{[[DONE]]}}")
PreserveWhen(node) == node.text.val = "D"

\* extractKey: the key of a "key:: value" text, undefined otherwise.
ExtractKey(text) == IF text.kind = "prop" THEN text.key ELSE Absent

\* isSpecialBlock: text.startsWith("__comments__")
IsSpecialBlock(text) == text.kind = "special"

\* ---------------------------------------------------------------- backend

RECURSIVE Size(_)
RECURSIVE SizeAll(_)
\* Number of nodes a payload creates.
Size(p) == 1 + SizeAll(ChildrenOf(p))
SizeAll(ps) == IF ps = <<>> THEN 0 ELSE Size(Head(ps)) + SizeAll(Tail(ps))

RECURSIVE MakeNode(_, _)
RECURSIVE MakeNodes(_, _)
\* The node tree a create call builds from a payload: fresh uids from u on.
MakeNode(p, u) == Node(u, p.text, MakeNodes(ChildrenOf(p), u + 1))
MakeNodes(ps, u) ==
  IF ps = <<>> THEN <<>>
  ELSE <<MakeNode(Head(ps), u)>> \o MakeNodes(Tail(ps), u + Size(Head(ps)))

RECURSIVE UpdateIn(_, _, _)
\* updateBlock: replaces the text of the node uid, children untouched.
UpdateIn(nodes, uid, text) ==
  [n \in DOMAIN nodes |->
     IF nodes[n].uid = uid
     THEN [nodes[n] EXCEPT !.text = text]
     ELSE [nodes[n] EXCEPT !.children = UpdateIn(@, uid, text)]]

RECURSIVE DeleteIn(_, _)
\* deleteBlock: removes the node uid with its descendants.
DeleteIn(nodes, uid) ==
  IF nodes = <<>> THEN <<>>
  ELSE IF Head(nodes).uid = uid THEN DeleteIn(Tail(nodes), uid)
  ELSE <<[Head(nodes) EXCEPT !.children = DeleteIn(@, uid)]>>
         \o DeleteIn(Tail(nodes), uid)

RECURSIVE AppendUnder(_, _, _)
\* createBlock(parent, node, "last") below the top level.
AppendUnder(nodes, parent, node) ==
  [n \in DOMAIN nodes |->
     IF nodes[n].uid = parent
     THEN [nodes[n] EXCEPT !.children = Append(@, node)]
     ELSE [nodes[n] EXCEPT !.children = AppendUnder(@, parent, node)]]

\* createBlock(parent, payload, "last"): the new node goes last.
CreateIn(nodes, parent, payload, u) ==
  IF parent = ParentUid
  THEN Append(nodes, MakeNode(payload, u))
  ELSE AppendUnder(nodes, parent, MakeNode(payload, u))

\* A backend call as the adapter receives it.
\* uid is the parent of a create and the target of an update or a delete;
\* payload is the block of a create and carries the text of an update.
NoPayload == Leaf(PlainText(""))
CreateCall(parent, payload, order) ==
  [op |-> "create", uid |-> parent, payload |-> payload, order |-> order]
UpdateCall(uid, text) ==
  [op |-> "update", uid |-> uid, payload |-> Leaf(text), order |-> "none"]
DeleteCall(uid) ==
  [op |-> "delete", uid |-> uid, payload |-> NoPayload, order |-> "none"]

\* The tree after the backend has applied a call faithfully.
Apply(nodes, call, u) ==
  CASE call.op = "create" -> CreateIn(nodes, call.uid, call.payload, u)
    [] call.op = "update" -> UpdateIn(nodes, call.uid, call.payload.text)
    [] call.op = "delete" -> DeleteIn(nodes, call.uid)

\* ------------------------------------------- BlockReconciler: pure helpers

\* A JavaScript Map as the sequence of its entries in insertion order.
\* set() on a key already present keeps the entry's place and replaces its value.
MapHas(m, key) == \E e \in DOMAIN m : m[e].key = key
MapGet(m, key) == m[CHOOSE e \in DOMAIN m : m[e].key = key].node
\* Mutant of MapSet: a key already present keeps its first value.
MapSetFirstWins(m, key, node) ==
  IF MapHas(m, key) THEN m ELSE Append(m, [key |-> key, node |-> node])

MapSet(m, key, node) ==
  IF MapHas(m, key)
  THEN [e \in DOMAIN m |-> IF m[e].key = key THEN [key |-> key, node |-> node] ELSE m[e]]
  ELSE Append(m, [key |-> key, node |-> node])
\* Mutant of MapDelete: the key is never marked as processed.
MapDeleteNothing(m, key) == m
\* Mutant of MapDelete: the newest entry is dropped, whatever its key.
MapDeleteNewest(m, key) == SubSeq(m, 1, Len(m) - 1)
MapDelete(m, key) ==
  LET Keep(e) == e.key # key IN SelectSeq(m, Keep)

RECURSIVE BuildExistingMapFrom(_, _)
BuildExistingMapFrom(nodes, m) ==
  IF nodes = <<>> THEN m
  ELSE LET id == ExtractIdFromBlock(Head(nodes))
       IN BuildExistingMapFrom(Tail(nodes),
            IF id # Absent THEN MapSet(m, id, Head(nodes)) ELSE m)

\* Mutant of BuildExistingMap: the test of the extracted id is missing, so
\* every fetched node gets an entry.
BuildExistingMapKeepingAll(nodes) ==
  [e \in 1..Len(nodes) |-> [key |-> ExtractIdFromBlock(nodes[e]), node |-> nodes[e]]]

\* buildExistingMap: nodes without an id are left out, a later node with the
\* same id replaces the earlier one.
BuildExistingMap(nodes) == BuildExistingMapFrom(nodes, <<>>)

\* Mutant of IsChildUnchanged: a child's own children are not compared.
IsChildUnchangedTextOnly(existing, newChild) == existing.text = newChild.text

RECURSIVE IsChildUnchanged(_, _)
\* isChildUnchanged: same text, same number of children, each pair unchanged.
IsChildUnchanged(existing, newChild) ==
  /\ existing.text = newChild.text
  /\ Len(existing.children) = Len(ChildrenOf(newChild))
  /\ \A c \in DOMAIN existing.children :
       IsChildUnchanged(existing.children[c], ChildrenOf(newChild)[c])

\* Mutant of IsUnchanged: the children are compared as objects, so only two
\* absent children fields count as equal.
IsUnchangedByReference(existing, newBlock) ==
  /\ existing.text = newBlock.text
  /\ existing.children = <<>>
  /\ ~newBlock.hasChildren

\* Mutant of IsUnchanged: a node preserveWhen holds of counts as unchanged.
IsUnchangedOrPreserved(existing, newBlock) ==
  \/ PreserveWhen(existing)
  \/ /\ existing.text = newBlock.text
     /\ Len(existing.children) = Len(ChildrenOf(newBlock))
     /\ \A c \in DOMAIN existing.children :
          IsChildUnchanged(existing.children[c], ChildrenOf(newBlock)[c])

\* isUnchanged: the same comparison at the top level.
IsUnchanged(existing, newBlock) ==
  /\ existing.text = newBlock.text
  /\ Len(existing.children) = Len(ChildrenOf(newBlock))
  /\ \A c \in DOMAIN existing.children :
       IsChildUnchanged(existing.children[c], ChildrenOf(newBlock)[c])

\* Mutant of CreateNewBlock: the children of the payload are dropped.
CreateNewBlockTextOnly(parentUid, block) ==
  CreateCall(parentUid, Leaf(block.text), "last")

\* createNewBlock: the whole payload, children included, goes last under the parent.
CreateNewBlock(parentUid, block) == CreateCall(parentUid, block, "last")

\* Mutant of TextUpdate: the node's own text is sent back.
TextUpdateStale(existing, newBlock) == UpdateCall(existing.uid, existing.text)

\* updateExistingBlock's text update: the payload's text on the matched node.
TextUpdate(existing, newBlock) == UpdateCall(existing.uid, newBlock.text)

\* Mutant of IsObsolete: preserveWhen is not consulted.
IsObsoleteIgnoringPreserve(entry, seen, preserve) == entry.key \notin seen

\* removeObsolete's test of one map entry: not seen and not preserved.
IsObsolete(entry, seen, preserve) ==
  /\ entry.key \notin seen
  /\ ~(preserve /\ PreserveWhen(entry.node))

\* Mutant of NextObsolete: the loop stops one entry early.
NextObsoleteOffByOne(m, k, seen, preserve) ==
  LET hits == {e \in k..(Len(m) - 1) : IsObsolete(m[e], seen, preserve)}
  IN IF hits = {} THEN Len(m) + 1
     ELSE CHOOSE e \in hits : \A f \in hits : e <= f

\* The first entry from k on that removeObsolete deletes, or Len + 1.
NextObsolete(m, k, seen, preserve) ==
  LET hits == {e \in k..Len(m) : IsObsolete(m[e], seen, preserve)}
  IN IF hits = {} THEN Len(m) + 1
     ELSE CHOOSE e \in hits : \A f \in hits : e <= f

\* Mutant of YieldDue: the configured batch size is ignored.
YieldDueDefault(count, batchSize) == count % DEFAULT_YIELD_BATCH_SIZE = 0

\* maybeYieldToMain / maybeYield: count % batchSize === 0
YieldDue(count, batchSize) == count % batchSize = 0

\* ------------------------------------------------------------------- state

VARIABLES
  tree,        \* the backend: the parent's children, each with its subtree
  nextUid,     \* the uid the backend gives the next node it creates
  config,      \* the caller's options and which entry point it calls
  items,       \* reconcile's items argument
  newChildren, \* syncChildren's newChildren argument of a direct call
  pass,        \* how many calls of the entry point have been started
  pc,          \* where reconcile stands
  frame,       \* reconcile's locals
  stats,       \* reconcile's stats record, the one onProgress is handed
  sync,        \* syncChildren's locals and where it stands
  inflight,    \* the backend call awaited, if any
  events,      \* what the current pass has done so far, in order
  outcome      \* how each finished call ended

vars == <<tree, nextUid, config, items, newChildren, pass, pc, frame, stats,
          sync, inflight, events, outcome>>

NoCall == [op |-> "none", uid |-> ParentUid, payload |-> NoPayload, order |-> "none"]

NoFrame ==
  [existingNodes |-> <<>>, existingMap |-> <<>>, seenIds |-> {}, i |-> 1,
   operationCount |-> 0,
   k |-> 1, deletedCount |-> 0, deleteOps |-> 0]

NoStats == [total |-> 0, skipped |-> 0, created |-> 0, updated |-> 0, deleted |-> 0]

NoChildStats == [skipped |-> 0, updated |-> 0, created |-> 0, deleted |-> 0]

NoSync ==
  [pc |-> "none", caller |-> "none", parentUid |-> ParentUid,
   existingChildren |-> <<>>, existingPropsMap |-> <<>>,
   existingSpecialBlocks |-> <<>>,
   newChildren |-> <<>>, j |-> 1, s |-> 1, o |-> 1,
   operationCount |-> 0, stats |-> NoChildStats]

SyncActive == sync.pc \notin {"none", "returned"}

\* The item the loop is at (0 once the loop is over or in a direct syncChildren).
CurrentItem ==
  IF pc \in {"idle", "obsolete", "delete_call", "delete_delay", "delete_yield",
             "returned", "rejected", "direct"}
  THEN 0 ELSE frame.i

\* The desired child syncChildren's loop is at (0 outside syncChildren, one
\* past the last in the orphan loop).
CurrentChild == IF SyncActive THEN sync.j ELSE 0

Event(op, by) == [op |-> op, by |-> by, item |-> CurrentItem, child |-> CurrentChild]
CallEvent(call, by) ==
  [op |-> call.op, by |-> by, item |-> CurrentItem, child |-> CurrentChild,
   uid |-> call.uid, payload |-> call.payload, order |-> call.order]
ProgressEvent(st) ==
  [op |-> "progress", by |-> "reconcile", item |-> CurrentItem, stats |-> st]

\* this.logger?.debug(name, ...): an entry for the logger when one is
\* configured, nothing otherwise.
Log(evs, name) ==
  IF config.logger
  THEN Append(evs, [op |-> "log", by |-> "logger", item |-> CurrentItem, name |-> name])
  ELSE evs

RECURSIVE LogTimes(_, _, _)
\* The same entry n times over (a log call in a loop without an await).
LogTimes(evs, name, n) ==
  IF n = 0 THEN evs ELSE LogTimes(Log(evs, name), name, n - 1)

\* removeObsolete on its way over the entries from..to: each one that is not
\* seen and is preserved is logged and left alone.
LogPreserved(evs, m, from, to, seen) ==
  LogTimes(evs, "reconciler_preserve",
           Cardinality({e \in from..to :
                          /\ m[e].key \notin seen
                          /\ config.preserveWhen /\ PreserveWhen(m[e].node)}))

\* ------------------------------------------------------ syncChildren: start

RECURSIVE PartitionPropsWithSpecials(_, _)
\* Mutant of PartitionProps: a special block is tracked like a property, under
\* the empty key.
PartitionPropsWithSpecials(children, m) ==
  IF children = <<>> THEN m
  ELSE LET key == ExtractKey(Head(children).text)
       IN PartitionPropsWithSpecials(Tail(children),
            IF key # Absent \/ IsSpecialBlock(Head(children).text)
            THEN MapSet(m, Head(children).text.key, Head(children)) ELSE m)

RECURSIVE PartitionProps(_, _)
\* The key map of the existing children: a later child with the same key
\* replaces the earlier one.
PartitionProps(children, m) ==
  IF children = <<>> THEN m
  ELSE LET key == ExtractKey(Head(children).text)
       IN PartitionProps(Tail(children),
            IF key # Absent THEN MapSet(m, key, Head(children)) ELSE m)

\* Mutant of PartitionSpecial: every existing child without a key is taken
\* for a special block.
PartitionSpecialAllKeyless(children, special) ==
  LET IsKeyless(c) == ExtractKey(c.text) = Absent /\ special
  IN SelectSeq(children, IsKeyless)

\* The existing special blocks, in order: no key, and isSpecialBlock
\* configured and true.
PartitionSpecial(children, special) ==
  LET IsSpecial(c) == ExtractKey(c.text) = Absent /\ special /\ IsSpecialBlock(c.text)
  IN SelectSeq(children, IsSpecial)

\* Mutant of OrphanPc: the orphan loop is never entered.
OrphanPcSkipping(m, o) == "finish"

\* Where syncChildren goes once the desired children are done: the orphan
\* loop awaits a delay first, and an empty map ends the call.
OrphanPc(m, o) == IF o <= Len(m) THEN "orphan_delay" ELSE "finish"

\* Where syncChildren goes after desired child j.
ChildPc(children, j, m) ==
  IF j <= Len(children) THEN "children" ELSE OrphanPc(m, 1)

\* Mutant of SyncStart: the existing children are read from the backend again
\* instead of being taken from the caller.
SyncStartFromBackend(caller, parentUid, existingChildren, desired) ==
  LET at == {n \in DOMAIN tree : tree[n].uid = parentUid}
      current == IF at = {} THEN <<>> ELSE tree[CHOOSE n \in at : TRUE].children
      m == PartitionProps(current, <<>>)
  IN [pc |-> ChildPc(desired, 1, m), caller |-> caller, parentUid |-> parentUid,
      existingChildren |-> current, existingPropsMap |-> m,
      existingSpecialBlocks |-> PartitionSpecial(current, config.isSpecialBlock),
      newChildren |-> desired, j |-> 1, s |-> 1, o |-> 1,
      operationCount |-> 0, stats |-> NoChildStats]

\* syncChildren up to its first loop.
SyncStart(caller, parentUid, existingChildren, desired) ==
  LET m == PartitionProps(existingChildren, <<>>)
  IN [pc |-> ChildPc(desired, 1, m), caller |-> caller, parentUid |-> parentUid,
      existingChildren |-> existingChildren, existingPropsMap |-> m,
      existingSpecialBlocks |-> PartitionSpecial(existingChildren, config.isSpecialBlock),
      newChildren |-> desired, j |-> 1, s |-> 1, o |-> 1,
      operationCount |-> 0, stats |-> NoChildStats]

\* ------------------------------------------------------- reconcile: actions

\* Mutant of StartReconcile: total counts the fetched nodes.
StartReconcileTotalOfExisting ==
  /\ config.entry = "reconcile"
  /\ \/ pc = "idle" /\ pass = "none"
     \/ pc = "returned" /\ pass = "first"
  /\ pass' = IF pass = "none" THEN "first" ELSE "second"
  /\ stats' = [NoStats EXCEPT !.total = Len(tree)]
  /\ frame' = [NoFrame EXCEPT !.existingNodes = tree,
                               !.existingMap = BuildExistingMap(tree)]
  /\ pc' = "items"
  /\ sync' = NoSync
  /\ events' = <<[op |-> "fetch", by |-> "reconcile", item |-> 0]>>
  /\ UNCHANGED <<tree, nextUid, config, items, newChildren, inflight, outcome>>

\* reconcile up to its loop: fresh stats, the one fetch, the id map.
StartReconcile ==
  /\ config.entry = "reconcile"
  /\ \/ pc = "idle" /\ pass = "none"
     \/ pc = "returned" /\ pass = "first"
  /\ pass' = IF pass = "none" THEN "first" ELSE "second"
  /\ stats' = [NoStats EXCEPT !.total = Len(items)]
  /\ frame' = [NoFrame EXCEPT !.existingNodes = tree,
                               !.existingMap = BuildExistingMap(tree)]
  /\ pc' = "items"
  /\ sync' = NoSync
  /\ events' =
       Log(LogTimes(<<[op |-> "fetch", by |-> "reconcile", item |-> 0, result |-> tree]>>,
                    "reconciler_map_entry",
                    Cardinality({n \in DOMAIN tree : ExtractIdFromBlock(tree[n]) # Absent})),
           "reconciler_start")
  /\ UNCHANGED <<tree, nextUid, config, items, newChildren, inflight, outcome>>

\* Mutant of FinishItem: the yield is taken only when a logger is configured.
FinishItemYieldOnlyLogged(f, st, evs) ==
  LET n == f.operationCount + 1
  IN /\ stats' = st
     /\ IF YieldDue(n, config.yieldBatchSize) /\ config.logger
        THEN /\ pc' = "yield"
             /\ frame' = [f EXCEPT !.operationCount = n]
             /\ events' = evs
        ELSE /\ pc' = "items"
             /\ frame' = [f EXCEPT !.operationCount = n, !.i = @ + 1]
             /\ events' = Append(evs, ProgressEvent(st))

\* The end of one loop round: operationCount++, maybeYieldToMain, onProgress.
\* f, st and evs are the frame, the stats and the events the round has made.
FinishItem(f, st, evs) ==
  LET n == f.operationCount + 1
  IN /\ stats' = st
     /\ IF YieldDue(n, config.yieldBatchSize)
        THEN /\ pc' = "yield"
             /\ frame' = [f EXCEPT !.operationCount = n]
             /\ events' = evs
        ELSE /\ pc' = "items"
             /\ frame' = [f EXCEPT !.operationCount = n, !.i = @ + 1]
             /\ events' = Append(evs, ProgressEvent(st))

\* Mutant of SyncOrFinish: without a syncChildren call the item is not counted.
SyncOrFinishUncounted(f, evs) ==
  LET newBlock == BuildBlock(items[f.i])
      existing == MapGet(f.existingMap, ExtractId(items[f.i]))
  IN IF config.childrenReconciler /\ newBlock.hasChildren
     THEN /\ sync' = SyncStart("reconcile", existing.uid, existing.children,
                               newBlock.children)
          /\ pc' = "sync"
          /\ frame' = f
          /\ events' = Log(evs, "children_reconciler_start")
          /\ UNCHANGED stats
     ELSE /\ FinishItem(f, stats, Log(evs, "reconciler_update"))
          /\ UNCHANGED sync

\* Mutant of SyncOrFinish: an empty children list is taken for no children.
SyncOrFinishNonEmptyOnly(f, evs) ==
  LET newBlock == BuildBlock(items[f.i])
      existing == MapGet(f.existingMap, ExtractId(items[f.i]))
  IN IF config.childrenReconciler /\ newBlock.hasChildren /\ newBlock.children # <<>>
     THEN /\ sync' = SyncStart("reconcile", existing.uid, existing.children,
                               newBlock.children)
          /\ pc' = "sync"
          /\ frame' = f
          /\ events' = Log(evs, "children_reconciler_start")
          /\ UNCHANGED stats
     ELSE /\ FinishItem(f, [stats EXCEPT !.updated = @ + 1],
                        Log(evs, "reconciler_update"))
          /\ UNCHANGED sync

\* updateExistingBlock after its text update: syncChildren when a children
\* reconciler is attached and the payload has a children field; then
\* stats.updated++ and the end of the round.
SyncOrFinish(f, evs) ==
  LET newBlock == BuildBlock(items[f.i])
      existing == MapGet(f.existingMap, ExtractId(items[f.i]))
  IN IF config.childrenReconciler /\ newBlock.hasChildren
     THEN /\ sync' = SyncStart("reconcile", existing.uid, existing.children,
                               newBlock.children)
          /\ pc' = "sync"
          /\ frame' = f
          /\ events' = Log(evs, "children_reconciler_start")
          /\ UNCHANGED stats
     ELSE /\ FinishItem(f, [stats EXCEPT !.updated = @ + 1],
                        Log(evs, "reconciler_update"))
          /\ UNCHANGED sync

\* Mutant of ProcessItem: the existing children are read again for every item.
ProcessItemRefetching ==
  /\ pc = "items"
  /\ frame.i <= Len(items)
  /\ LET item == items[frame.i]
         id == ExtractId(item)
         newBlock == BuildBlock(item)
         f == [frame EXCEPT !.seenIds = @ \cup {id},
                            !.existingMap = BuildExistingMap(tree)]
     IN IF MapHas(f.existingMap, id)
        THEN LET existingNode == MapGet(f.existingMap, id)
             IN IF IsUnchanged(existingNode, newBlock)
                THEN /\ FinishItem(f, [stats EXCEPT !.skipped = @ + 1],
                                   Log(events, "reconciler_skip"))
                     /\ UNCHANGED <<sync, inflight>>
                ELSE IF existingNode.text # newBlock.text
                THEN /\ inflight' = TextUpdate(existingNode, newBlock)
                     /\ events' = Append(events, CallEvent(inflight', "reconcile"))
                     /\ pc' = "update_call"
                     /\ frame' = f
                     /\ UNCHANGED <<sync, stats>>
                ELSE /\ SyncOrFinish(f, events)
                     /\ UNCHANGED inflight
        ELSE /\ inflight' = CreateNewBlock(ParentUid, newBlock)
             /\ events' = Append(events, CallEvent(inflight', "reconcile"))
             /\ pc' = "create_call"
             /\ frame' = f
             /\ UNCHANGED <<sync, stats>>
  /\ UNCHANGED <<tree, nextUid, config, items, newChildren, pass, outcome>>

\* One round of the loop up to its first await.
ProcessItem ==
  /\ pc = "items"
  /\ frame.i <= Len(items)
  /\ LET item == items[frame.i]
         id == ExtractId(item)
         newBlock == BuildBlock(item)
         f == [frame EXCEPT !.seenIds = @ \cup {id}]
     IN IF MapHas(frame.existingMap, id)
        THEN LET existingNode == MapGet(frame.existingMap, id)
             IN IF IsUnchanged(existingNode, newBlock)
                THEN /\ FinishItem(f, [stats EXCEPT !.skipped = @ + 1],
                                   Log(events, "reconciler_skip"))
                     /\ UNCHANGED <<sync, inflight>>
                ELSE IF existingNode.text # newBlock.text
                THEN /\ inflight' = TextUpdate(existingNode, newBlock)
                     /\ events' = Append(events, CallEvent(inflight', "reconcile"))
                     /\ pc' = "update_call"
                     /\ frame' = f
                     /\ UNCHANGED <<sync, stats>>
                ELSE /\ SyncOrFinish(f, events)
                     /\ UNCHANGED inflight
        ELSE /\ inflight' = CreateNewBlock(ParentUid, newBlock)
             /\ events' = Append(events, CallEvent(inflight', "reconcile"))
             /\ pc' = "create_call"
             /\ frame' = f
             /\ UNCHANGED <<sync, stats>>
  /\ UNCHANGED <<tree, nextUid, config, items, newChildren, pass, outcome>>

\* updateExistingBlock: the delay after the text update, then the children.
UpdateDelay ==
  /\ pc = "update_delay"
  /\ SyncOrFinish(frame, Append(events, Event("delay", "reconcile")))
  /\ UNCHANGED <<tree, nextUid, config, items, newChildren, pass, inflight, outcome>>

\* Mutant of AfterSync: what syncChildren counted is added to the top-level
\* counters.
AfterSyncAddingChildStats ==
  /\ pc = "sync"
  /\ sync.pc = "returned"
  /\ FinishItem(frame,
                [stats EXCEPT !.updated = @ + 1 + sync.stats.updated,
                              !.created = @ + sync.stats.created,
                              !.skipped = @ + sync.stats.skipped],
                Log(events, "reconciler_update"))
  /\ sync' = NoSync
  /\ UNCHANGED <<tree, nextUid, config, items, newChildren, pass, inflight, outcome>>

\* The nested syncChildren has returned: stats.updated++ and the end of the round.
AfterSync ==
  /\ pc = "sync"
  /\ sync.pc = "returned"
  /\ FinishItem(frame, [stats EXCEPT !.updated = @ + 1],
                Log(events, "reconciler_update"))
  /\ sync' = NoSync
  /\ UNCHANGED <<tree, nextUid, config, items, newChildren, pass, inflight, outcome>>

\* Mutant of Created: an item whose id an earlier item had is not counted again.
CreatedCountingDistinct ==
  /\ pc = "created"
  /\ FinishItem(frame,
                IF \E n \in 1..(frame.i - 1) : ExtractId(items[n]) = ExtractId(items[frame.i])
                THEN stats ELSE [stats EXCEPT !.created = @ + 1],
                Log(events, "reconciler_create"))
  /\ UNCHANGED <<tree, nextUid, config, items, newChildren, pass, sync, inflight, outcome>>

\* Mutant of Created: the created item is not counted.
CreatedUncounted ==
  /\ pc = "created"
  /\ FinishItem(frame, stats, Log(events, "reconciler_create"))
  /\ UNCHANGED <<tree, nextUid, config, items, newChildren, pass, sync, inflight, outcome>>

\* createNewBlock has resolved: stats.created++ and the end of the round.
Created ==
  /\ pc = "created"
  /\ FinishItem(frame, [stats EXCEPT !.created = @ + 1],
                Log(events, "reconciler_create"))
  /\ UNCHANGED <<tree, nextUid, config, items, newChildren, pass, sync, inflight, outcome>>

\* Mutant of ItemYield: a round that yielded does not call onProgress.
ItemYieldWithoutProgress ==
  /\ pc = "yield"
  /\ events' = Append(events, Event("yield", "reconcile"))
  /\ frame' = [frame EXCEPT !.i = @ + 1]
  /\ pc' = "items"
  /\ UNCHANGED <<tree, nextUid, config, items, newChildren, pass, stats, sync, inflight, outcome>>

\* The loop's yield is over: onProgress, next round.
ItemYield ==
  /\ pc = "yield"
  /\ events' = Append(Append(events, Event("yield", "reconcile")), ProgressEvent(stats))
  /\ frame' = [frame EXCEPT !.i = @ + 1]
  /\ pc' = "items"
  /\ UNCHANGED <<tree, nextUid, config, items, newChildren, pass, stats, sync, inflight, outcome>>

\* Mutant of InRemoveObsolete: removeObsolete may start while items remain.
InRemoveObsoleteEarly ==
  \/ pc = "items"
  \/ pc = "obsolete"

InRemoveObsolete ==
  \/ pc = "items" /\ frame.i > Len(items)
  \/ pc = "obsolete"

\* Mutant of RemoveObsoleteDelete: the deletes are not awaited, the next one
\* is issued while the last is still outstanding.
RemoveObsoleteDeleteUnawaited ==
  /\ InRemoveObsolete \/ pc = "delete_call"
  /\ LET from == IF pc = "delete_call" THEN frame.k + 1 ELSE frame.k
         n == NextObsolete(frame.existingMap, from, frame.seenIds, config.preserveWhen)
     IN /\ n <= Len(frame.existingMap)
        /\ inflight' = DeleteCall(frame.existingMap[n].node.uid)
        /\ frame' = [frame EXCEPT !.k = n]
  /\ pc' = "delete_call"
  /\ events' = Append(events, [CallEvent(inflight', "reconcile") EXCEPT !.item = 0])
  /\ UNCHANGED <<tree, nextUid, config, items, newChildren, pass, stats, sync, outcome>>

\* removeObsolete: the next entry that is neither seen nor preserved is deleted.
RemoveObsoleteDelete ==
  /\ InRemoveObsolete
  /\ LET n == NextObsolete(frame.existingMap, frame.k, frame.seenIds, config.preserveWhen)
     IN /\ n <= Len(frame.existingMap)
        /\ inflight' = DeleteCall(frame.existingMap[n].node.uid)
        /\ frame' = [frame EXCEPT !.k = n]
        /\ events' =
             Append(LogPreserved(events, frame.existingMap, frame.k, n - 1, frame.seenIds),
                    [CallEvent(inflight', "reconcile") EXCEPT !.item = 0])
  /\ pc' = "delete_call"
  /\ UNCHANGED <<tree, nextUid, config, items, newChildren, pass, stats, sync, outcome>>

\* removeObsolete: the delay after a delete, deletedCount++, the yield policy.
DeleteDelay ==
  /\ pc = "delete_delay"
  /\ events' = Log(Append(events, Event("delay", "reconcile")), "reconciler_delete")
  /\ LET n == frame.deleteOps + 1
     IN IF YieldDue(n, config.yieldBatchSize)
        THEN /\ pc' = "delete_yield"
             /\ frame' = [frame EXCEPT !.deletedCount = @ + 1, !.deleteOps = n]
        ELSE /\ pc' = "obsolete"
             /\ frame' = [frame EXCEPT !.deletedCount = @ + 1, !.deleteOps = n,
                                       !.k = @ + 1]
  /\ UNCHANGED <<tree, nextUid, config, items, newChildren, pass, stats, sync, inflight, outcome>>

DeleteYield ==
  /\ pc = "delete_yield"
  /\ events' = Append(events, Event("yield", "reconcile"))
  /\ frame' = [frame EXCEPT !.k = @ + 1]
  /\ pc' = "obsolete"
  /\ UNCHANGED <<tree, nextUid, config, items, newChildren, pass, stats, sync, inflight, outcome>>

\* removeObsolete has no entry left: stats.deleted is set and reconcile returns.
ReconcileReturn ==
  /\ InRemoveObsolete
  /\ NextObsolete(frame.existingMap, frame.k, frame.seenIds, config.preserveWhen)
       > Len(frame.existingMap)
  /\ stats' = [stats EXCEPT !.deleted = frame.deletedCount]
  /\ outcome' = Append(outcome, [status |-> "returned", stats |-> stats'])
  /\ pc' = "returned"
  /\ events' =
       Append(Log(LogPreserved(events, frame.existingMap, frame.k,
                               Len(frame.existingMap), frame.seenIds),
                  "reconciler_complete"),
              [op |-> "return", by |-> "reconcile", item |-> 0])
  /\ UNCHANGED <<tree, nextUid, config, items, newChildren, pass, frame, sync, inflight>>

\* ---------------------------------------------------- syncChildren: actions

\* The block whose children a direct syncChildren call reconciles.
DirectParent == tree[1]

\* A direct call of syncChildren with the parent's current children.
StartSyncChildren ==
  /\ config.entry = "syncChildren"
  /\ \/ pc = "idle" /\ pass = "none"
     \/ pc = "returned" /\ pass = "first"
  /\ pass' = IF pass = "none" THEN "first" ELSE "second"
  /\ sync' = SyncStart("direct", DirectParent.uid, DirectParent.children, newChildren)
  /\ pc' = "direct"
  /\ events' = Log(<<>>, "children_reconciler_start")
  /\ UNCHANGED <<tree, nextUid, config, items, newChildren, frame, stats, inflight, outcome>>

\* The end of one desired child: operationCount++ and maybeYield with the
\* library default.  sy is the sync record the child has made.
\* Mutant of SyncFinishChild: the yield follows the configured yieldBatchSize.
SyncFinishChildConfigured(sy, evs) ==
  LET n == sy.operationCount + 1
  IN /\ events' = evs
     /\ sync' = IF YieldDue(n, config.yieldBatchSize)
                THEN [sy EXCEPT !.operationCount = n, !.pc = "yield"]
                ELSE [sy EXCEPT !.operationCount = n, !.j = @ + 1,
                        !.pc = ChildPc(sy.newChildren, sy.j + 1, sy.existingPropsMap)]

SyncFinishChild(sy, evs) ==
  LET n == sy.operationCount + 1
  IN /\ events' = evs
     /\ sync' = IF YieldDue(n, DEFAULT_YIELD_BATCH_SIZE)
                THEN [sy EXCEPT !.operationCount = n, !.pc = "yield"]
                ELSE [sy EXCEPT !.operationCount = n, !.j = @ + 1,
                        !.pc = ChildPc(sy.newChildren, sy.j + 1, sy.existingPropsMap)]

\* One desired child up to its first await.
SyncChild ==
  /\ sync.pc = "children"
  /\ LET newChild == sync.newChildren[sync.j]
         key == ExtractKey(newChild.text)
     IN IF key # Absent
        THEN IF MapHas(sync.existingPropsMap, key)
             THEN LET existing == MapGet(sync.existingPropsMap, key)
                  IN IF existing.text = newChild.text
                     THEN /\ SyncFinishChild(
                               [sync EXCEPT !.stats.skipped = @ + 1,
                                  !.existingPropsMap = MapDelete(@, key)],
                               Log(events, "children_reconciler_skip"))
                          /\ UNCHANGED inflight
                     ELSE /\ inflight' = UpdateCall(existing.uid, newChild.text)
                          /\ events' = Append(events, CallEvent(inflight', "syncChildren"))
                          /\ sync' = [sync EXCEPT !.pc = "prop_update_call"]
             ELSE /\ inflight' = CreateCall(sync.parentUid, newChild, "last")
                  /\ events' = Append(events, CallEvent(inflight', "syncChildren"))
                  /\ sync' = [sync EXCEPT !.pc = "child_create_call"]
        ELSE IF config.isSpecialBlock /\ IsSpecialBlock(newChild.text)
        THEN IF sync.existingSpecialBlocks # <<>>
             THEN /\ inflight' = DeleteCall(sync.existingSpecialBlocks[1].uid)
                  /\ events' = Append(events, CallEvent(inflight', "syncChildren"))
                  /\ sync' = [sync EXCEPT !.pc = "special_delete_call", !.s = 1]
             ELSE /\ inflight' = CreateCall(sync.parentUid, newChild, "last")
                  /\ events' = Append(events, CallEvent(inflight', "syncChildren"))
                  /\ sync' = [sync EXCEPT !.pc = "child_create_call"]
        ELSE /\ SyncFinishChild(sync, events)
             /\ UNCHANGED inflight
  /\ UNCHANGED <<tree, nextUid, config, items, newChildren, pass, pc, frame, stats, outcome>>

\* Mutant of SyncUpdateDelay: an updated property is not marked as processed.
SyncUpdateDelayUnmarked ==
  /\ sync.pc = "prop_update_delay"
  /\ SyncFinishChild(
       [sync EXCEPT !.stats.updated = @ + 1],
       Log(Append(events, Event("delay", "syncChildren")), "children_reconciler_update"))
  /\ UNCHANGED <<tree, nextUid, config, items, newChildren, pass, pc, frame, stats, inflight, outcome>>

\* A property's update has resolved: delay, stats.updated++, the key is
\* taken out of the map.
SyncUpdateDelay ==
  /\ sync.pc = "prop_update_delay"
  /\ SyncFinishChild(
       [sync EXCEPT !.stats.updated = @ + 1,
          !.existingPropsMap =
             MapDelete(@, ExtractKey(sync.newChildren[sync.j].text))],
       Log(Append(events, Event("delay", "syncChildren")), "children_reconciler_update"))
  /\ UNCHANGED <<tree, nextUid, config, items, newChildren, pass, pc, frame, stats, inflight, outcome>>

\* Mutant of SyncCreateDelay: the create is counted as an update.
SyncCreateDelayMiscounted ==
  /\ sync.pc = "child_create_delay"
  /\ SyncFinishChild([sync EXCEPT !.stats.updated = @ + 1],
                     Append(events, Event("delay", "syncChildren")))
  /\ UNCHANGED <<tree, nextUid, config, items, newChildren, pass, pc, frame, stats, inflight, outcome>>

\* A child's create (a property or the special block) has resolved: delay,
\* stats.created++.
SyncCreateDelay ==
  /\ sync.pc = "child_create_delay"
  /\ SyncFinishChild([sync EXCEPT !.stats.created = @ + 1],
                     Log(Append(events, Event("delay", "syncChildren")),
                         IF ExtractKey(sync.newChildren[sync.j].text) # Absent
                         THEN "children_reconciler_create"
                         ELSE "children_reconciler_create_special"))
  /\ UNCHANGED <<tree, nextUid, config, items, newChildren, pass, pc, frame, stats, inflight, outcome>>

\* Mutant of SyncSpecialDeleteDelay: only the first existing special block
\* is deleted before the new one is created.
SyncSpecialDeleteOnlyFirst ==
  /\ sync.pc = "special_delete_delay"
  /\ inflight' = CreateCall(sync.parentUid, sync.newChildren[sync.j], "last")
  /\ sync' = [sync EXCEPT !.stats.deleted = @ + 1, !.s = 1,
                !.existingSpecialBlocks = <<>>, !.pc = "child_create_call"]
  /\ events' = Append(Append(events, Event("delay", "syncChildren")),
                      CallEvent(inflight', "syncChildren"))
  /\ UNCHANGED <<tree, nextUid, config, items, newChildren, pass, pc, frame, stats, outcome>>

\* Mutant of SyncSpecialDeleteDelay: the list of existing special blocks is
\* not cleared after its blocks have been deleted.
SyncSpecialDeleteDelayKeepingList ==
  /\ sync.pc = "special_delete_delay"
  /\ IF sync.s < Len(sync.existingSpecialBlocks)
     THEN /\ inflight' = DeleteCall(sync.existingSpecialBlocks[sync.s + 1].uid)
          /\ sync' = [sync EXCEPT !.stats.deleted = @ + 1, !.s = @ + 1,
                        !.pc = "special_delete_call"]
     ELSE /\ inflight' = CreateCall(sync.parentUid, sync.newChildren[sync.j], "last")
          /\ sync' = [sync EXCEPT !.stats.deleted = @ + 1, !.s = 1,
                        !.pc = "child_create_call"]
  /\ events' = Append(Log(Append(events, Event("delay", "syncChildren")),
                          "children_reconciler_delete_special"),
                      CallEvent(inflight', "syncChildren"))
  /\ UNCHANGED <<tree, nextUid, config, items, newChildren, pass, pc, frame, stats, outcome>>

\* An existing special block's delete has resolved: delay, stats.deleted++,
\* then the next one, or the list is cleared and the new special block created.
SyncSpecialDeleteDelay ==
  /\ sync.pc = "special_delete_delay"
  /\ IF sync.s < Len(sync.existingSpecialBlocks)
     THEN /\ inflight' = DeleteCall(sync.existingSpecialBlocks[sync.s + 1].uid)
          /\ sync' = [sync EXCEPT !.stats.deleted = @ + 1, !.s = @ + 1,
                        !.pc = "special_delete_call"]
     ELSE /\ inflight' = CreateCall(sync.parentUid, sync.newChildren[sync.j], "last")
          /\ sync' = [sync EXCEPT !.stats.deleted = @ + 1, !.s = 1,
                        !.existingSpecialBlocks = <<>>, !.pc = "child_create_call"]
  /\ events' = Append(Log(Append(events, Event("delay", "syncChildren")),
                          "children_reconciler_delete_special"),
                      CallEvent(inflight', "syncChildren"))
  /\ UNCHANGED <<tree, nextUid, config, items, newChildren, pass, pc, frame, stats, outcome>>

\* A yield of syncChildren is over: the next desired child or the next orphan.
SyncYield ==
  /\ sync.pc = "yield"
  /\ events' = Append(events, Event("yield", "syncChildren"))
  /\ sync' = IF sync.j <= Len(sync.newChildren)
             THEN [sync EXCEPT !.j = @ + 1,
                     !.pc = ChildPc(sync.newChildren, sync.j + 1, sync.existingPropsMap)]
             ELSE [sync EXCEPT !.o = @ + 1,
                     !.pc = OrphanPc(sync.existingPropsMap, sync.o + 1)]
  /\ UNCHANGED <<tree, nextUid, config, items, newChildren, pass, pc, frame, stats, inflight, outcome>>

\* The orphan loop: the delay comes first, then the delete is issued.
SyncOrphanDelay ==
  /\ sync.pc = "orphan_delay"
  /\ inflight' = DeleteCall(sync.existingPropsMap[sync.o].node.uid)
  /\ events' = Append(Append(events, Event("delay", "syncChildren")),
                      CallEvent(inflight', "syncChildren"))
  /\ sync' = [sync EXCEPT !.pc = "orphan_call"]
  /\ UNCHANGED <<tree, nextUid, config, items, newChildren, pass, pc, frame, stats, outcome>>

\* An orphan's delete has resolved: stats.deleted++, operationCount++, maybeYield.
SyncOrphanDone ==
  /\ sync.pc = "orphan_done"
  /\ LET n == sync.operationCount + 1
     IN sync' = IF YieldDue(n, DEFAULT_YIELD_BATCH_SIZE)
                THEN [sync EXCEPT !.stats.deleted = @ + 1, !.operationCount = n,
                        !.pc = "yield"]
                ELSE [sync EXCEPT !.stats.deleted = @ + 1, !.operationCount = n,
                        !.o = @ + 1, !.pc = OrphanPc(sync.existingPropsMap, sync.o + 1)]
  /\ events' = Log(events, "children_reconciler_delete_orphan")
  /\ UNCHANGED <<tree, nextUid, config, items, newChildren, pass, pc, frame, stats, inflight, outcome>>

\* syncChildren returns its stats; a direct call ends here.
SyncReturn ==
  /\ sync.pc = "finish"
  /\ sync' = [sync EXCEPT !.pc = "returned"]
  /\ events' = Append(Log(events, "children_reconciler_complete"),
                      [op |-> "sync_return", by |-> "syncChildren",
                       item |-> CurrentItem, parent |-> sync.parentUid,
                       stats |-> sync.stats])
  /\ IF sync.caller = "direct"
     THEN /\ pc' = "returned"
          /\ outcome' = Append(outcome, [status |-> "returned", stats |-> sync.stats,
                                         existing |-> sync.existingChildren])
     ELSE UNCHANGED <<pc, outcome>>
  /\ UNCHANGED <<tree, nextUid, config, items, newChildren, pass, frame, stats, inflight>>

\* ------------------------------------------------------- backend: actions

\* Mutant of AfterCall: the code awaiting a call is never resumed.
AfterCallLost(label) == label

\* Where the awaiting code stands once its call has resolved.
AfterCall(label) ==
  CASE label = "update_call" -> "update_delay"
    [] label = "create_call" -> "created"
    [] label = "delete_call" -> "delete_delay"
    [] label = "prop_update_call" -> "prop_update_delay"
    [] label = "child_create_call" -> "child_create_delay"
    [] label = "special_delete_call" -> "special_delete_delay"
    [] label = "orphan_call" -> "orphan_done"

\* The backend applies the call in flight and its promise resolves.
BackendResolve ==
  /\ inflight.op # "none"
  /\ tree' = Apply(tree, inflight, nextUid)
  /\ nextUid' = IF inflight.op = "create" THEN nextUid + Size(inflight.payload)
                ELSE nextUid
  /\ inflight' = NoCall
  /\ IF SyncActive
     THEN /\ sync' = [sync EXCEPT !.pc = AfterCall(@)]
          /\ UNCHANGED pc
     ELSE /\ pc' = AfterCall(pc)
          /\ UNCHANGED sync
  /\ UNCHANGED <<config, items, newChildren, pass, frame, stats, events, outcome>>

\* Mutant of BackendReject: the rejection is caught and the pass goes on as
\* if the call had resolved.
BackendRejectSwallowed ==
  /\ inflight.op # "none"
  /\ inflight' = NoCall
  /\ IF SyncActive
     THEN /\ sync' = [sync EXCEPT !.pc = AfterCall(@)]
          /\ UNCHANGED pc
     ELSE /\ pc' = AfterCall(pc)
          /\ UNCHANGED sync
  /\ events' = Append(events, [op |-> "reject", by |-> "backend", item |-> CurrentItem,
                               uid |-> inflight.uid, payload |-> inflight.payload,
                               order |-> inflight.order])
  /\ UNCHANGED <<tree, nextUid, config, items, newChildren, pass, frame, stats, outcome>>

\* The call in flight rejects: nothing catches it, so the entry point rejects
\* with the same error and nothing of it runs any more.
BackendReject ==
  /\ inflight.op # "none"
  /\ inflight' = NoCall
  /\ pc' = "rejected"
  /\ sync' = NoSync
  /\ outcome' = Append(outcome, [status |-> "rejected", error |-> inflight])
  /\ events' = Append(events, [op |-> "reject", by |-> "backend", item |-> CurrentItem,
                               uid |-> inflight.uid, payload |-> inflight.payload,
                               order |-> inflight.order])
  /\ UNCHANGED <<tree, nextUid, config, items, newChildren, pass, frame, stats>>

\* ------------------------------------------------------------ specification

SeqsUpTo(S, n) == UNION {[1..m -> S] : m \in 0..n}

Item(id, content, hasChildren, children) ==
  [id |-> id, content |-> content, hasChildren |-> hasChildren, children |-> children]

\* The children an item asks for: a property and a special block.
DesiredKids == <<Leaf(PropText("p", "x")), Leaf(SpecialText("c"))>>
\* The children of an existing node: the property with another value, a
\* property that is not asked for, and a special block.
ExistingKids ==
  <<Leaf(PropText("p", "y")), Leaf(PropText("q", "x")), Leaf(SpecialText("c"))>>

Ids == {"1", "2"}

\* The items of a run.
ItemSet ==
  {Item(id, "A", FALSE, <<>>) : id \in Ids}
    \cup {Item(id, "B", TRUE, DesiredKids) : id \in Ids}

\* The nodes under the parent before the first pass, as the payloads that made
\* them: managed nodes, a node marked done, a node without an id marker.
NodeSet ==
  { Leaf(ItemText("1", "A")),
    Payload(ItemText("1", "B"), TRUE, ExistingKids),
    Leaf(ItemText("2", "D")),
    Leaf(PlainText("A")) }

Configs ==
  [entry : {"reconcile"}, childrenReconciler : BOOLEAN, preserveWhen : BOOLEAN,
   isSpecialBlock : {TRUE}, yieldBatchSize : {ConfiguredYieldBatchSize},
   logger : {FALSE}]

Init ==
  /\ config \in Configs
  /\ items \in SeqsUpTo(ItemSet, MaxItems)
  /\ \E existing \in SeqsUpTo(NodeSet, MaxExisting) :
       /\ tree = MakeNodes(existing, 1)
       /\ nextUid = 1 + SizeAll(existing)
  /\ newChildren = <<>>
  /\ pass = "none"
  /\ pc = "idle"
  /\ frame = NoFrame
  /\ stats = NoStats
  /\ sync = NoSync
  /\ inflight = NoCall
  /\ events = <<>>
  /\ outcome = <<>>

ReconcileNext ==
  \/ StartReconcile
  \/ ProcessItem
  \/ UpdateDelay
  \/ AfterSync
  \/ Created
  \/ ItemYield
  \/ RemoveObsoleteDelete
  \/ DeleteDelay
  \/ DeleteYield
  \/ ReconcileReturn

SyncNext ==
  \/ SyncChild
  \/ SyncUpdateDelay
  \/ SyncCreateDelay
  \/ SyncSpecialDeleteDelay
  \/ SyncYield
  \/ SyncOrphanDelay
  \/ SyncOrphanDone
  \/ SyncReturn

BackendNext ==
  \/ BackendResolve
  \/ BackendReject

Next == ReconcileNext \/ SyncNext \/ BackendNext

Spec == Init /\ [][Next]_vars

\* A direct call of syncChildren: the children of one block against a list
\* of desired children, with and without isSpecialBlock configured.

ChildSet ==
  { Leaf(PropText("p", "x")), Leaf(PropText("p", "y")), Leaf(PropText("q", "x")),
    Leaf(SpecialText("c")), Leaf(PlainText("n")) }

NewChildSet ==
  { Leaf(PropText("p", "x")), Leaf(PropText("p", "y")), Leaf(PropText("q", "x")),
    Payload(SpecialText("c"), TRUE, <<Leaf(PlainText("n"))>>), Leaf(PlainText("n")) }

SyncConfigs ==
  [entry : {"syncChildren"}, childrenReconciler : {TRUE}, preserveWhen : {FALSE},
   isSpecialBlock : BOOLEAN, yieldBatchSize : {ConfiguredYieldBatchSize},
   logger : {FALSE}]

InitSync ==
  /\ config \in SyncConfigs
  /\ items = <<>>
  /\ newChildren \in SeqsUpTo(NewChildSet, MaxNewChildren)
  /\ \E existing \in SeqsUpTo(ChildSet, MaxExistingChildren) :
       /\ tree = MakeNodes(<<Payload(ItemText("1", "A"), TRUE, existing)>>, 1)
       /\ nextUid = 2 + SizeAll(existing)
  /\ pass = "none"
  /\ pc = "idle"
  /\ frame = NoFrame
  /\ stats = NoStats
  /\ sync = NoSync
  /\ inflight = NoCall
  /\ events = <<>>
  /\ outcome = <<>>

NextSync == StartSyncChildren \/ SyncNext \/ BackendNext

SpecSync == InitSync /\ [][NextSync]_vars

\* ------------------------------------------------------------------ claims
\* What the claims read off a run.

MutationOps == {"create", "update", "delete"}

\* The places of the backend calls in the events of the current pass.
CallIdx == {x \in DOMAIN events : events[x].op \in MutationOps}

\* The ids of the items handed to reconcile.
ItemIds == {ExtractId(items[n]) : n \in DOMAIN items}

InReconcile == config.entry = "reconcile" /\ pc # "idle"

ReconcileReturned == config.entry = "reconcile" /\ pc = "returned"

\* onProgress has been called for item n.
Reported(n) == \E x \in DOMAIN events : events[x].op = "progress" /\ events[x].item = n

\* The stats onProgress saw after item n, and the stats before item n.
ProgressStats(n) ==
  events[CHOOSE x \in DOMAIN events : events[x].op = "progress" /\ events[x].item = n].stats
StatsBefore(n) ==
  IF n = 1 THEN [NoStats EXCEPT !.total = Len(items)] ELSE ProgressStats(n - 1)

\* The backend calls issued while item n was handled.
CallsOfItem(n) == {x \in CallIdx : events[x].item = n}

\* C1: a second reconcile with the same items, after a first one that
\* returned against a faithful backend and with no other change to the tree,
\* returns skipped = total and created = updated = deleted = 0.
C1_Idempotence ==
  (ReconcileReturned /\ pass = "second") =>
     LET st == outcome[Len(outcome)].stats
     IN st.skipped = st.total /\ st.created = 0 /\ st.updated = 0 /\ st.deleted = 0

\* The node the identifier map holds for item n, and the payload built for it.
Matched(n) == MapHas(frame.existingMap, ExtractId(items[n]))
MatchedNode(n) == MapGet(frame.existingMap, ExtractId(items[n]))

RECURSIVE SameTree(_, _)
\* Structural equality as the specification states it: identical text, equally
\* many children, each pair equal by the same rule.
SameTree(node, payload) ==
  /\ node.text = payload.text
  /\ Len(node.children) = Len(ChildrenOf(payload))
  /\ \A c \in 1..Len(node.children) : SameTree(node.children[c], ChildrenOf(payload)[c])

EqualItem(n) == Matched(n) /\ SameTree(MatchedNode(n), BuildBlock(items[n]))

\* C2: an item whose id maps to an existing node that is structurally equal
\* to its payload causes no backend call and increments only skipped; when
\* every item is of this kind and every tracked id is in the item list, the
\* pass issues no backend call at all.
C2_NoOpOnEquality ==
  InReconcile =>
    /\ \A n \in DOMAIN items :
         (Reported(n) /\ EqualItem(n)) =>
            /\ CallsOfItem(n) = {}
            /\ ProgressStats(n) = [StatsBefore(n) EXCEPT !.skipped = @ + 1]
    /\ ( /\ pc = "returned"
         /\ \A n \in DOMAIN items : EqualItem(n)
         /\ \A e \in DOMAIN frame.existingMap : frame.existingMap[e].key \in ItemIds )
       => CallIdx = {}

\* Two items, one of them with children, both skipped in a pass without a call.
C2_Witness ==
  /\ ReconcileReturned
  /\ Len(items) = 2
  /\ \A n \in DOMAIN items : EqualItem(n)
  /\ \E n \in DOMAIN items : items[n].hasChildren
  /\ stats.skipped = 2
  /\ CallIdx = {}

\* The delete calls on a uid in the current pass.
DeletesOf(uid) == {x \in CallIdx : events[x].op = "delete" /\ events[x].uid = uid}

Preserved(node) == config.preserveWhen /\ PreserveWhen(node)

\* The fetched nodes with an id that is not in the item list and that
\* preserveWhen does not protect.
ExistingOrphans ==
  {n \in DOMAIN frame.existingNodes :
     /\ ExtractIdFromBlock(frame.existingNodes[n]) # Absent
     /\ ExtractIdFromBlock(frame.existingNodes[n]) \notin ItemIds
     /\ ~Preserved(frame.existingNodes[n])}

\* The same among the nodes the identifier map tracks.
TrackedOrphans ==
  {e \in DOMAIN frame.existingMap :
     /\ frame.existingMap[e].key \notin ItemIds
     /\ ~Preserved(frame.existingMap[e].node)}

\* C3 as claimed: in a reconcile that returned, every existing node whose id
\* is not in the item list and that is not preserved has exactly one delete
\* call on its uid, and deleted is the number of such nodes.
C3_DeletionCompleteness ==
  ReconcileReturned =>
    /\ \A n \in ExistingOrphans :
         Cardinality(DeletesOf(frame.existingNodes[n].uid)) = 1
    /\ stats.deleted = Cardinality(ExistingOrphans)

\* C3 as amended: the same of every node the identifier map tracks (of several
\* nodes with one id, the last fetched).
C3_TrackedDeletionCompleteness ==
  ReconcileReturned =>
    /\ \A e \in TrackedOrphans :
         Cardinality(DeletesOf(frame.existingMap[e].node.uid)) = 1
    /\ stats.deleted = Cardinality(TrackedOrphans)

\* Two tracked orphans, both deleted.
C3_Witness ==
  /\ ReconcileReturned
  /\ Cardinality(TrackedOrphans) = 2
  /\ stats.deleted = 2

\* The fetched nodes with an id that is not in the item list and that
\* preserveWhen protects.
PreservedOrphans ==
  {n \in DOMAIN frame.existingNodes :
     /\ ExtractIdFromBlock(frame.existingNodes[n]) # Absent
     /\ ExtractIdFromBlock(frame.existingNodes[n]) \notin ItemIds
     /\ Preserved(frame.existingNodes[n])}

TopLevelDeletes == {x \in CallIdx : events[x].op = "delete" /\ events[x].by = "reconcile"}

\* C4: a node whose id is not in the item list and for which preserveWhen
\* returns true has no delete call on its uid at any point of the pass, and
\* the deleted counter counts the top-level deletes only, none of them of
\* such a node.
C4_PreservationOverridesDeletion ==
  InReconcile =>
    /\ \A n \in PreservedOrphans : DeletesOf(frame.existingNodes[n].uid) = {}
    /\ frame.deletedCount <= Cardinality(TopLevelDeletes)
    /\ pc = "returned" => stats.deleted = Cardinality(TopLevelDeletes)

\* A preserved orphan is still in the tree after a pass that deleted another node.
C4_Witness ==
  /\ ReconcileReturned
  /\ stats.deleted >= 1
  /\ \E n \in PreservedOrphans :
       \E t \in DOMAIN tree : tree[t] = frame.existingNodes[n]

\* The fetched nodes for which extractIdFromBlock returns nothing.
Unextractable ==
  {n \in DOMAIN frame.existingNodes :
     ExtractIdFromBlock(frame.existingNodes[n]) = Absent}

\* C5: a fetched top-level node without an extractable id is never the
\* target of an update or delete call, and stays in the tree as it was.
C5_UnextractableInvisible ==
  InReconcile =>
    \A n \in Unextractable :
      /\ \A x \in CallIdx :
           events[x].op \in {"update", "delete"}
             => events[x].uid # frame.existingNodes[n].uid
      /\ \E t \in DOMAIN tree : tree[t] = frame.existingNodes[n]

\* A pass that updated or deleted another node while such a node was there.
C5_Witness ==
  /\ ReconcileReturned
  /\ Unextractable # {}
  /\ \E x \in CallIdx : events[x].op = "delete"
  /\ \E x \in CallIdx : events[x].op = "update"

\* The top-level create calls of the current pass.
TopLevelCreates == {x \in CallIdx : events[x].op = "create" /\ events[x].uid = ParentUid}

\* C6: an item whose id has no entry in the identifier map causes exactly
\* one backend call, createBlock(parent, the whole built payload, "last"),
\* and increments created by one; the top-level creates follow the item order.
C6_CreateForUnmatched ==
  InReconcile =>
    /\ \A n \in DOMAIN items :
         (Reported(n) /\ ~Matched(n)) =>
            /\ \E x \in CallIdx :
                 /\ CallsOfItem(n) = {x}
                 /\ events[x].op = "create"
                 /\ events[x].by = "reconcile"
                 /\ events[x].uid = ParentUid
                 /\ events[x].payload = BuildBlock(items[n])
                 /\ events[x].order = "last"
            /\ ProgressStats(n) = [StatsBefore(n) EXCEPT !.created = @ + 1]
    /\ \A x, y \in TopLevelCreates : x < y => events[x].item < events[y].item

\* Two unmatched items, one of them with children, both created.
C6_Witness ==
  /\ ReconcileReturned
  /\ Len(items) = 2
  /\ \A n \in DOMAIN items : ~Matched(n)
  /\ \E n \in DOMAIN items : items[n].hasChildren
  /\ stats.created = 2
  /\ Cardinality(TopLevelCreates) = 2

TextDiffers(n) == Matched(n) /\ MatchedNode(n).text # BuildBlock(items[n]).text

\* C7: an item whose id matches a node with another text causes exactly one
\* updateBlock(uid of that node, the payload's text), no top-level create,
\* no delete of that node in the pass, and increments updated by one.
C7_TextUpdate ==
  InReconcile =>
    \A n \in DOMAIN items :
      (Reported(n) /\ TextDiffers(n)) =>
         /\ \E x \in CallsOfItem(n) :
              /\ events[x].op = "update"
              /\ events[x].uid = MatchedNode(n).uid
              /\ events[x].payload.text = BuildBlock(items[n]).text
              /\ \A y \in CallsOfItem(n) :
                   (events[y].op = "update" /\ events[y].uid = MatchedNode(n).uid)
                     => y = x
         /\ CallsOfItem(n) \cap TopLevelCreates = {}
         /\ DeletesOf(MatchedNode(n).uid) = {}
         /\ ProgressStats(n) = [StatsBefore(n) EXCEPT !.updated = @ + 1]

\* A pass that returned after an item's text update.
C7_Witness ==
  /\ ReconcileReturned
  /\ \E n \in DOMAIN items : TextDiffers(n) /\ Reported(n)
  /\ stats.updated >= 1

Rejections == {x \in DOMAIN events : events[x].op = "reject"}

\* What holds once a backend call has rejected: the entry point has rejected
\* with that call's error, the rejection is the last thing that happened, and
\* onProgress was called for the items before the failing one only.
AbortedAtRejection ==
  Rejections # {} =>
    /\ Rejections = {Len(events)}
    /\ pc = "rejected"
    /\ inflight.op = "none"
    /\ ~SyncActive
    /\ outcome[Len(outcome)].status = "rejected"
    /\ Len(events) >= 2
    /\ events[Len(events) - 1].op \in MutationOps
    /\ outcome[Len(outcome)].error.op = events[Len(events) - 1].op
    /\ outcome[Len(outcome)].error.uid = events[Len(events) - 1].uid
    /\ outcome[Len(outcome)].error.payload = events[Len(events) - 1].payload
    /\ events[Len(events)].item # 0 =>
         \A n \in DOMAIN items : Reported(n) => n < events[Len(events)].item

\* C8: when a backend call rejects, the entry point rejects with that error,
\* no backend call and no onProgress follows, and the rejection leaves the
\* tree with the mutations made before it.
C8_FailureAborts ==
  /\ []AbortedAtRejection
  /\ [][ /\ (Rejections = {} /\ pc' = "rejected") => tree' = tree
         /\ Rejections = {} ]_vars

\* A rejection after an earlier mutation of the pass took effect.
C8_Witness ==
  /\ config.entry = "reconcile"
  /\ pc = "rejected"
  /\ Cardinality(CallIdx) >= 2
  /\ \E n \in DOMAIN items : Reported(n)
  /\ tree # frame.existingNodes

DirectReturned == config.entry = "syncChildren" /\ pc = "returned"

KeysOf(children) ==
  {ExtractKey(children[c].text) : c \in DOMAIN children} \ {Absent}

AllProperties(children) ==
  \A c \in DOMAIN children : ExtractKey(children[c].text) # Absent

\* C9: when all existing and all desired children of a syncChildren call are
\* properties, created + updated + skipped is the number of desired children
\* and deleted is the number of existing keys that are not desired.
C9_PropertyCounts ==
  ( /\ DirectReturned
    /\ AllProperties(sync.existingChildren)
    /\ AllProperties(sync.newChildren) ) =>
     LET st == outcome[Len(outcome)].stats
     IN /\ st.created + st.updated + st.skipped = Len(sync.newChildren)
        /\ st.deleted =
             Cardinality(KeysOf(sync.existingChildren) \ KeysOf(sync.newChildren))

\* An update and an orphan's delete in one call.
C9_Witness ==
  /\ DirectReturned
  /\ AllProperties(sync.existingChildren)
  /\ AllProperties(sync.newChildren)
  /\ sync.stats.updated = 1
  /\ sync.stats.deleted = 1

IsSpecialChild(text) ==
  ExtractKey(text) = Absent /\ config.isSpecialBlock /\ IsSpecialBlock(text)

ExistingSpecials ==
  {c \in DOMAIN sync.existingChildren : IsSpecialChild(sync.existingChildren[c].text)}

DesiredSpecials ==
  {j \in DOMAIN sync.newChildren : IsSpecialChild(sync.newChildren[j].text)}

\* The creates of the desired special child j under the parent.
SpecialCreates(j) ==
  {x \in CallIdx : /\ events[x].op = "create"
                   /\ events[x].uid = sync.parentUid
                   /\ events[x].payload = sync.newChildren[j]}

InDirectSync == config.entry = "syncChildren" /\ sync.caller = "direct"

DesiredKey(j) == ExtractKey(sync.newChildren[j].text)

\* The existing child the key map tracks for a key: the last one with it.
TrackedChild(key) ==
  sync.existingChildren[
    CHOOSE c \in DOMAIN sync.existingChildren :
      /\ ExtractKey(sync.existingChildren[c].text) = key
      /\ \A d \in DOMAIN sync.existingChildren :
           ExtractKey(sync.existingChildren[d].text) = key => d <= c]

\* The key of desired child j is tracked when the child is reached: an
\* existing child has it and no earlier desired child has taken it.
TrackedAt(j) ==
  /\ DesiredKey(j) \in KeysOf(sync.existingChildren)
  /\ \A i \in 1..(j - 1) : DesiredKey(i) # DesiredKey(j)

SkipKind(j) ==
  /\ DesiredKey(j) # Absent
  /\ TrackedAt(j)
  /\ TrackedChild(DesiredKey(j)).text = sync.newChildren[j].text
UpdateKind(j) ==
  /\ DesiredKey(j) # Absent
  /\ TrackedAt(j)
  /\ TrackedChild(DesiredKey(j)).text # sync.newChildren[j].text
CreateKind(j) == DesiredKey(j) # Absent /\ ~TrackedAt(j)

\* The backend calls issued while desired child j was handled.
CallsOfChild(j) == {x \in CallIdx : events[x].child = j}

\* syncChildren is through with desired child j.
ChildDone(j) == sync.pc = "returned" \/ sync.j > j

\* C11: for each desired child with a key syncChildren does exactly one of:
\* no call and skipped++ (tracked key, same text); one updateBlock(existing
\* uid, desired text) and updated++ (tracked key, other text); one
\* createBlock(parentUid, child, "last") and created++ (key not tracked).
\* A key is tracked until a desired child has used it.
C11_PropertyChildDecision ==
  InDirectSync =>
    /\ \A j \in DOMAIN sync.newChildren :
         ChildDone(j) =>
           /\ SkipKind(j) => CallsOfChild(j) = {}
           /\ UpdateKind(j) =>
                \E x \in CallIdx :
                  /\ CallsOfChild(j) = {x}
                  /\ events[x].op = "update"
                  /\ events[x].uid = TrackedChild(DesiredKey(j)).uid
                  /\ events[x].payload.text = sync.newChildren[j].text
           /\ CreateKind(j) =>
                \E x \in CallIdx :
                  /\ CallsOfChild(j) = {x}
                  /\ events[x].op = "create"
                  /\ events[x].uid = sync.parentUid
                  /\ events[x].payload = sync.newChildren[j]
                  /\ events[x].order = "last"
    /\ sync.pc = "returned" =>
         /\ sync.stats.skipped =
              Cardinality({j \in DOMAIN sync.newChildren : SkipKind(j)})
         /\ sync.stats.updated =
              Cardinality({j \in DOMAIN sync.newChildren : UpdateKind(j)})
         /\ sync.stats.created =
              Cardinality({j \in DOMAIN sync.newChildren : CreateKind(j)})
                + Cardinality(DesiredSpecials)

\* One desired property updated and one created in the same call.
C11_Witness ==
  /\ DirectReturned
  /\ \E j \in DOMAIN sync.newChildren : UpdateKind(j)
  /\ \E j \in DOMAIN sync.newChildren : CreateKind(j)
  /\ sync.stats.updated = 1
  /\ sync.stats.created = 1


\* The keys of tracked existing children that no desired child has.
OrphanKeys == KeysOf(sync.existingChildren) \ KeysOf(sync.newChildren)

\* The calls issued while the desired children were handled.
DesiredChildCalls == {y \in CallIdx : events[y].child \in DOMAIN sync.newChildren}

\* C12: in a syncChildren that returns, every tracked existing property
\* child whose key no desired child has gets exactly one deleteBlock, issued
\* after all desired children have been handled, and no tracked child whose
\* key a desired child has is deleted.
C12_PropertyOrphanDeletion ==
  InDirectSync =>
    /\ \A key \in KeysOf(sync.existingChildren) \cap KeysOf(sync.newChildren) :
         DeletesOf(TrackedChild(key).uid) = {}
    /\ \A key \in OrphanKeys :
         \A x \in DeletesOf(TrackedChild(key).uid) :
           /\ events[x].child > Len(sync.newChildren)
           /\ \A y \in DesiredChildCalls : y < x
    /\ sync.pc = "returned" =>
         \A key \in OrphanKeys :
           Cardinality(DeletesOf(TrackedChild(key).uid)) = 1

\* An orphan deleted after a desired child's update.
C12_Witness ==
  /\ DirectReturned
  /\ OrphanKeys # {}
  /\ DesiredChildCalls # {}
  /\ \A key \in OrphanKeys : DeletesOf(TrackedChild(key).uid) # {}
  /\ sync.stats.deleted = 1


\* A text syncChildren has no use for: no key, and not a special block (or
\* isSpecialBlock is not configured).
InvisibleText(text) == ExtractKey(text) = Absent /\ ~IsSpecialChild(text)

InvisibleExisting ==
  {c \in DOMAIN sync.existingChildren : InvisibleText(sync.existingChildren[c].text)}
InvisibleDesired ==
  {j \in DOMAIN sync.newChildren : InvisibleText(sync.newChildren[j].text)}

\* C13: an existing child without a key that is not a special block is never
\* the target of updateBlock or deleteBlock and stays under the parent as it
\* was; a desired child of that kind causes no backend call and changes no
\* counter.
C13_NonPropertyInvisible ==
  InDirectSync =>
    /\ \A c \in InvisibleExisting :
         /\ \A x \in CallIdx :
              events[x].op \in {"update", "delete"}
                => events[x].uid # sync.existingChildren[c].uid
         /\ \E t \in DOMAIN DirectParent.children :
              DirectParent.children[t] = sync.existingChildren[c]
    /\ \A j \in InvisibleDesired : ChildDone(j) => CallsOfChild(j) = {}
    /\ sync.pc = "returned" =>
         /\ sync.stats.skipped + sync.stats.updated + sync.stats.created =
              Len(sync.newChildren) - Cardinality(InvisibleDesired)
         /\ sync.stats.deleted =
              Cardinality(OrphanKeys)
                + (IF DesiredSpecials # {} THEN Cardinality(ExistingSpecials) ELSE 0)

\* Both kinds present in a call that also updated a property.
C13_Witness ==
  /\ DirectReturned
  /\ InvisibleExisting # {}
  /\ InvisibleDesired # {}
  /\ sync.stats.updated = 1


\* The onProgress calls of the current pass.
ProgressIdx == {x \in DOMAIN events : events[x].op = "progress"}

\* C14: in a reconcile that returns, onProgress is called exactly once per
\* item, skipped items included, after the item's calls and its counter
\* increment and before anything of the next item; never once the deletion
\* of orphans has begun; it is handed the stats record as it stands, the
\* record reconcile returns in the end.
C14_ProgressReporting ==
  InReconcile =>
    /\ \A x \in ProgressIdx :
         /\ events[x].item \in DOMAIN items
         /\ \A y \in DOMAIN events :
              /\ (y # x /\ events[y].item = events[x].item) => y < x
              /\ events[y].item > events[x].item => x < y
         /\ \A y \in TopLevelDeletes : x < y
         /\ events[x].stats.skipped + events[x].stats.created + events[x].stats.updated
              = events[x].item
         /\ events[x].stats.total = stats.total
    /\ pc = "returned" =>
         /\ \A n \in DOMAIN items :
              Cardinality({x \in ProgressIdx : events[x].item = n}) = 1
         /\ outcome[Len(outcome)].stats = stats
         /\ Len(items) > 0 =>
              ProgressStats(Len(items)) = [stats EXCEPT !.deleted = 0]

\* Two items reported, one of them skipped, before an orphan was deleted.
C14_Witness ==
  /\ ReconcileReturned
  /\ Len(items) = 2
  /\ Cardinality(ProgressIdx) = 2
  /\ stats.skipped >= 1
  /\ TopLevelDeletes # {}


\* C15: from the first state of reconcile to its return (or its rejection)
\* stats.total is the length of the item list, whatever exists and whatever
\* is created, updated, skipped or deleted.
C15_TotalConstant ==
  InReconcile =>
    /\ stats.total = Len(items)
    /\ \A x \in ProgressIdx : events[x].stats.total = Len(items)
    /\ outcome # <<>> /\ outcome[Len(outcome)].status = "returned"
         => outcome[Len(outcome)].stats.total = Len(items)

\* Two items against one fetched node, with a create and a delete.
C15_Witness ==
  /\ ReconcileReturned
  /\ stats.total = 2
  /\ Len(frame.existingNodes) = 1
  /\ stats.created >= 1
  /\ stats.deleted >= 1


\* A step that issues a backend call: the call is the last event it adds.
IssuesCall ==
  /\ events' # events
  /\ events' # <<>>
  /\ events'[Len(events')].op \in MutationOps

\* While a call is outstanding it is the last thing that has happened.
OutstandingIsLast ==
  inflight.op # "none" =>
    /\ events # <<>>
    /\ events[Len(events)].op = inflight.op
    /\ events[Len(events)].uid = inflight.uid
    /\ events[Len(events)].payload = inflight.payload

\* C16: during reconcile, nested syncChildren included, at most one backend
\* call is outstanding: a call is issued only when none is outstanding, and
\* nothing else happens until it has resolved.
C16_OneMutationInFlight ==
  /\ []OutstandingIsLast
  /\ [][IssuesCall => (inflight.op = "none" /\ inflight'.op # "none")]_vars

\* A call of a nested syncChildren outstanding after earlier calls of the pass.
C16_Witness ==
  /\ config.entry = "reconcile"
  /\ inflight.op # "none"
  /\ SyncActive
  /\ Cardinality(CallIdx) >= 3


\* The delays of the current pass.
DelayIdx == {z \in DOMAIN events : events[z].op = "delay"}

\* C17: after every backend call the engine issues (a top-level create,
\* update or delete, a create, update or delete of syncChildren) it waits out
\* one delay before it issues the next backend call or returns.
C17_PacingAfterEveryMutation ==
  InReconcile =>
    \A x \in CallIdx :
      \A y \in DOMAIN events :
        (x < y /\ events[y].op \in MutationOps \cup {"return"})
          => \E z \in DelayIdx : x < z /\ z < y


\* ------------------------------------------------------------ the adapter
\* createRoamApiAdapter over the host's functions.  The host's tree is made of
\* basic nodes, whose text may be absent.

\* How many adapter calls a run makes.
MaxAdapterCalls == 2

\* node.text ?? ""
EmptyText == PlainText("")

\* What stands for the text of a basic node that has none.
NoText == [kind |-> "none", key |-> "", val |-> ""]

\* A basic node of the host: uid, an optional text, children.
BasicNode(uid, hasText, text, children) ==
  [uid |-> uid, hasText |-> hasText, text |-> text, children |-> children]

RECURSIVE ToRoamNode(_)
\* toRoamNode: text or "", the uid, the children mapped in order.
ToRoamNode(node) ==
  Node(node.uid,
       IF node.hasText THEN node.text ELSE EmptyText,
       [c \in DOMAIN node.children |-> ToRoamNode(node.children[c])])

\* Mutant of ToInputNode: the children are not carried over.
ToInputNodeShallow(payload) == Leaf(payload.text)

RECURSIVE ToInputNode(_)
\* toInputNode: the text, and the children mapped in order when there are any.
ToInputNode(payload) ==
  Payload(payload.text, payload.hasChildren,
          [c \in DOMAIN payload.children |-> ToInputNode(payload.children[c])])

\* adapter.getChildren: the host's nodes, each converted.
GetChildren(nodes) == [n \in DOMAIN nodes |-> ToRoamNode(nodes[n])]

\* adapter.createBlock: what the host's createBlock is called with; order
\* defaults to "last".
AdapterCreateParams(parentUid, block, order) ==
  [op |-> "create", uid |-> parentUid, payload |-> ToInputNode(block),
   order |-> IF order = Absent THEN "last" ELSE order]

RECURSIVE MakeBasicNode(_, _)
RECURSIVE MakeBasicNodes(_, _)
\* The host's tree for a description of it: uids from u on.  A description is
\* a payload whose text may be NoText.
MakeBasicNode(d, u) ==
  BasicNode(u, d.text # NoText, d.text, MakeBasicNodes(ChildrenOf(d), u + 1))
MakeBasicNodes(ds, u) ==
  IF ds = <<>> THEN <<>>
  ELSE <<MakeBasicNode(Head(ds), u)>> \o MakeBasicNodes(Tail(ds), u + Size(Head(ds)))


\* The adapter calls made so far.
AdapterCalls ==
  Cardinality({x \in DOMAIN events : events[x].op \in {"getChildren", "createBlock"}})

\* The blocks handed to adapter.createBlock and the orders: none given,
\* "last", a position.
AdapterBlocks ==
  { Leaf(PlainText("a")),
    Payload(PlainText("a"), TRUE, <<>>),
    Payload(PlainText("a"), TRUE,
            <<Leaf(PlainText("b")),
              Payload(PlainText("c"), TRUE, <<Leaf(PlainText("d"))>>)>>) }
Orders == {Absent, "last", "0"}

\* adapter.getChildren(parentUid): the host's tree is read and converted.
AdapterGetChildren ==
  /\ config.entry = "adapter"
  /\ inflight.op = "none"
  /\ AdapterCalls < MaxAdapterCalls
  /\ frame' = [frame EXCEPT !.existingNodes = GetChildren(tree)]
  /\ events' = Append(events, [op |-> "getChildren", host |-> tree,
                               result |-> GetChildren(tree)])
  /\ UNCHANGED <<tree, nextUid, config, items, newChildren, pass, pc, stats, sync,
                 inflight, outcome>>

\* adapter.createBlock(parentUid, block, order) up to its await.
AdapterCreateBlock ==
  /\ config.entry = "adapter"
  /\ inflight.op = "none"
  /\ AdapterCalls < MaxAdapterCalls
  /\ \E block \in AdapterBlocks, order \in Orders :
       /\ inflight' = AdapterCreateParams(ParentUid, block, order)
       /\ events' = Append(events, [op |-> "createBlock", block |-> block,
                                    order |-> order, call |-> inflight'])
  /\ UNCHANGED <<tree, nextUid, config, items, newChildren, pass, pc, frame, stats,
                 sync, outcome>>

\* The host has created the node and resolved with its uid, which
\* adapter.createBlock returns.
AdapterCreated ==
  /\ config.entry = "adapter"
  /\ inflight.op = "create"
  /\ tree' = Append(tree, MakeBasicNode(inflight.payload, nextUid))
  /\ nextUid' = nextUid + Size(inflight.payload)
  /\ inflight' = NoCall
  /\ outcome' = Append(outcome, [status |-> "returned", uid |-> nextUid])
  /\ events' = Append(events, [op |-> "created", hostUid |-> nextUid])
  /\ UNCHANGED <<config, items, newChildren, pass, pc, frame, stats, sync>>

\* The host's trees: a node with text, a node without, a node with children
\* one of which has no text, a node without text over two levels.
BasicSet ==
  { Leaf(PlainText("a")),
    Leaf(NoText),
    Payload(PlainText("a"), TRUE, <<Leaf(NoText), Leaf(PlainText("b"))>>),
    Payload(NoText, TRUE, <<Payload(PlainText("b"), TRUE, <<Leaf(NoText)>>)>>) }

AdapterConfigs ==
  [entry : {"adapter"}, childrenReconciler : {FALSE}, preserveWhen : {FALSE},
   isSpecialBlock : {FALSE}, yieldBatchSize : {DEFAULT_YIELD_BATCH_SIZE},
   logger : {FALSE}]

InitAdapter ==
  /\ config \in AdapterConfigs
  /\ items = <<>>
  /\ newChildren = <<>>
  /\ \E host \in SeqsUpTo(BasicSet, MaxExisting) :
       /\ tree = MakeBasicNodes(host, 1)
       /\ nextUid = 1 + SizeAll(host)
  /\ pass = "none"
  /\ pc = "idle"
  /\ frame = NoFrame
  /\ stats = NoStats
  /\ sync = NoSync
  /\ inflight = NoCall
  /\ events = <<>>
  /\ outcome = <<>>

NextAdapter == AdapterGetChildren \/ AdapterCreateBlock \/ AdapterCreated

SpecAdapter == InitAdapter /\ [][NextAdapter]_vars

RECURSIVE FaithfulNodes(_, _)
\* The converted nodes have the host's shape and order, the host's uid at
\* every node, and the host's text, or the empty string where it has none.
FaithfulNodes(roam, host) ==
  /\ Len(roam) = Len(host)
  /\ \A n \in DOMAIN roam :
       /\ roam[n].uid = host[n].uid
       /\ roam[n].text = (IF host[n].hasText THEN host[n].text ELSE EmptyText)
       /\ FaithfulNodes(roam[n].children, host[n].children)

\* C19: getChildren returns a tree of the host's shape and order with the
\* host's uid at every node and the host's text, or "" where it is absent;
\* createBlock hands the host the payload tree unchanged under the given
\* parent, with order "last" when none is given, and returns the uid the
\* host returned.
C19_AdapterConversion ==
  config.entry = "adapter" =>
    /\ \A x \in DOMAIN events :
         /\ events[x].op = "getChildren" =>
              FaithfulNodes(events[x].result, events[x].host)
         /\ events[x].op = "createBlock" =>
              /\ events[x].call.op = "create"
              /\ events[x].call.uid = ParentUid
              /\ events[x].call.payload = events[x].block
              /\ events[x].call.order =
                   (IF events[x].order = Absent THEN "last" ELSE events[x].order)
         /\ events[x].op = "created" =>
              /\ outcome # <<>>
              /\ x = Len(events) => outcome[Len(outcome)].uid = events[x].hostUid

\* A block with children created without an order, then read back among
\* nodes without text.
C19_Witness ==
  /\ config.entry = "adapter"
  /\ Len(events) = 3
  /\ events[1].op = "createBlock"
  /\ events[1].order = Absent
  /\ events[1].block.hasChildren /\ Len(events[1].block.children) = 2
  /\ events[3].op = "getChildren"
  /\ Len(events[3].result) = 3
  /\ \E n \in DOMAIN events[3].host : ~events[3].host[n].hasText


\* ------------------------------------------------------------ isUnchanged
\* The comparison on its own: one existing node against the payload built
\* for one item, over trees several levels deep.

\* Most children of a node below the top level.
MaxEqualKids == 2

TextA == PlainText("a")
TextB == PlainText("b")

\* Children without children (the field absent or empty), children with
\* children, children with grandchildren.
Kids0 == {Leaf(TextA), Leaf(TextB), Payload(TextA, TRUE, <<>>)}
Kids1 ==
  {Payload(TextA, TRUE, s) : s \in SeqsUpTo({Leaf(TextA), Leaf(TextB)}, MaxEqualKids) \ {<<>>}}
Kids2 == {Payload(TextA, TRUE, <<k>>) : k \in Kids1}
KidLists ==
  {<<>>} \cup {<<k>> : k \in Kids0 \cup Kids1 \cup Kids2}
         \cup {<<Leaf(TextA), k>> : k \in Kids0 \cup Kids1 \cup Kids2}

EqualItems ==
  {Item("1", c, FALSE, <<>>) : c \in {"A", "B"}}
    \cup {Item("1", c, TRUE, ks) : c \in {"A", "B"}, ks \in KidLists}

EqualNodes == {Payload(ItemText("1", c), TRUE, ks) : c \in {"A", "B"}, ks \in KidLists}

EqualConfigs ==
  [entry : {"isUnchanged"}, childrenReconciler : {FALSE}, preserveWhen : {FALSE},
   isSpecialBlock : {FALSE}, yieldBatchSize : {DEFAULT_YIELD_BATCH_SIZE},
   logger : {FALSE}]

InitEqual ==
  /\ config \in EqualConfigs
  /\ items \in {<<item>> : item \in EqualItems}
  /\ newChildren = <<>>
  /\ \E existing \in EqualNodes :
       /\ tree = MakeNodes(<<existing>>, 1)
       /\ nextUid = 1 + Size(existing)
  /\ pass = "none"
  /\ pc = "idle"
  /\ frame = NoFrame
  /\ stats = NoStats
  /\ sync = NoSync
  /\ inflight = NoCall
  /\ events = <<>>
  /\ outcome = <<>>

\* isUnchanged(existingNode, buildBlock(item)) is computed.
CompareBlocks ==
  /\ config.entry = "isUnchanged"
  /\ pc = "idle"
  /\ pc' = "returned"
  /\ outcome' = <<[status |-> "returned",
                   unchanged |-> IsUnchanged(tree[1], BuildBlock(items[1]))]>>
  /\ UNCHANGED <<tree, nextUid, config, items, newChildren, pass, frame, stats, sync,
                 inflight, events>>

NextEqual == CompareBlocks

SpecEqual == InitEqual /\ [][NextEqual]_vars

\* C20: the comparison of an existing node with a payload is true exactly
\* when the texts are identical, the children sequences are equally long (an
\* absent field reading as empty) and the children are pairwise equal by the
\* same rule at every depth; a length mismatch gives false, not an error.
C20_StructuralEquality ==
  (config.entry = "isUnchanged" /\ pc = "returned") =>
     /\ outcome[1].unchanged \in BOOLEAN
     /\ outcome[1].unchanged = SameTree(tree[1], BuildBlock(items[1]))

\* Same text, one child each, the children alike but for the number of
\* their own children: false.
C20_Witness ==
  /\ config.entry = "isUnchanged"
  /\ pc = "returned"
  /\ tree[1].text = BuildBlock(items[1]).text
  /\ Len(tree[1].children) = 1
  /\ Len(ChildrenOf(BuildBlock(items[1]))) = 1
  /\ tree[1].children[1].text = items[1].children[1].text
  /\ Len(tree[1].children[1].children) = 2
  /\ Len(ChildrenOf(items[1].children[1])) = 1
  /\ outcome[1].unchanged = FALSE


\* ------------------------------------------------------------ the logger
\* Two runs over the same inputs, the first with a logger that records what
\* it is handed, the second without one.

LoggedConfigs ==
  [entry : {"reconcile"}, childrenReconciler : {TRUE}, preserveWhen : BOOLEAN,
   isSpecialBlock : {TRUE}, yieldBatchSize : {ConfiguredYieldBatchSize},
   logger : {TRUE}]

LoggedSyncConfigs ==
  [entry : {"syncChildren"}, childrenReconciler : {TRUE}, preserveWhen : {FALSE},
   isSpecialBlock : {TRUE}, yieldBatchSize : {ConfiguredYieldBatchSize},
   logger : {TRUE}]

InitLogger ==
  /\ \/ /\ config \in LoggedConfigs
        /\ items \in SeqsUpTo(ItemSet, MaxItems)
        /\ newChildren = <<>>
        /\ \E existing \in SeqsUpTo(NodeSet, MaxExisting) :
             /\ tree = MakeNodes(existing, 1)
             /\ nextUid = 1 + SizeAll(existing)
     \/ /\ config \in LoggedSyncConfigs
        /\ items = <<>>
        /\ newChildren \in SeqsUpTo(NewChildSet, MaxNewChildren)
        /\ \E existing \in SeqsUpTo(ChildSet, MaxExistingChildren) :
             /\ tree = MakeNodes(<<Payload(ItemText("1", "A"), TRUE, existing)>>, 1)
             /\ nextUid = 2 + SizeAll(existing)
  /\ pass = "none"
  /\ pc = "idle"
  /\ frame = NoFrame
  /\ stats = NoStats
  /\ sync = NoSync
  /\ inflight = NoCall
  /\ events = <<>>
  /\ outcome = <<>>

RECURSIVE NodeCount(_)
\* Number of nodes in a list of trees.
NodeCount(nodes) ==
  IF nodes = <<>> THEN 0
  ELSE 1 + NodeCount(Head(nodes).children) + NodeCount(Tail(nodes))

\* The tree the finished run started from: what reconcile fetched, or the
\* parent with the children syncChildren was handed.
TreeAtStart ==
  IF config.entry = "reconcile" THEN frame.existingNodes
  ELSE <<[tree[1] EXCEPT !.children = sync.existingChildren]>>

\* The run with the logger has returned: what it did and returned is kept,
\* the backend is put back to the tree the run started from, and a
\* reconciler built from the same configuration less the logger is next.
RerunWithoutLogger ==
  /\ config.logger
  /\ pc = "returned"
  /\ pass = "first"
  /\ outcome' = <<[status |-> "observed", events |-> events,
                   stats |-> outcome[Len(outcome)].stats]>>
  /\ config' = [config EXCEPT !.logger = FALSE]
  /\ tree' = TreeAtStart
  /\ nextUid' = 1 + NodeCount(TreeAtStart)
  /\ pass' = "none"
  /\ pc' = "idle"
  /\ frame' = NoFrame
  /\ stats' = NoStats
  /\ sync' = NoSync
  /\ events' = <<>>
  /\ UNCHANGED <<items, newChildren, inflight>>

NextLogger == Next \/ StartSyncChildren \/ RerunWithoutLogger

SpecLogger == InitLogger /\ [][NextLogger]_vars

\* What a run does apart from logging: its backend calls, delays, yields,
\* onProgress calls and returns, in order.
Observable(evs) == SelectSeq(evs, LAMBDA e : e.op # "log")

\* The entries the logger of the first run was handed.
Logged(evs) == {evs[x].name : x \in {y \in DOMAIN evs : evs[y].op = "log"}}

\* The first pass of the run without a logger has returned.
RerunReturned ==
  /\ ~config.logger
  /\ pc = "returned"
  /\ pass = "first"
  /\ Len(outcome) = 2
  /\ outcome[1].status = "observed"

\* C18 (logger neutrality): for the same existing tree, items and
\* configuration, and a backend that resolves every call, a reconcile or
\* syncChildren run without a logger issues the same sequence of backend
\* calls, delays, yields and onProgress calls as the run with a logger that
\* only records, and returns the same stats.
C18_LoggerNeutrality ==
  RerunReturned =>
    /\ Observable(events) = Observable(outcome[1].events)
    /\ outcome[2].stats = outcome[1].stats

\* Both runs of a reconcile are over; the logged one updated an item, created
\* a property child and deleted an obsolete block, and the rerun yielded.
C18_Witness ==
  /\ RerunReturned
  /\ config.entry = "reconcile"
  /\ {"reconciler_delete", "reconciler_update", "children_reconciler_create",
      "reconciler_complete"} \subseteq Logged(outcome[1].events)
  /\ Logged(events) = {}
  /\ \E x \in DOMAIN events : events[x].op = "yield"


\* ------------------------------------------------- the children field
\* reconcile over items that differ in their children field only, against
\* nodes with the same text and other children.

\* Two children, the property with another value than DesiredKids asks for.
OtherKids == <<Leaf(PropText("p", "y")), Leaf(SpecialText("c"))>>

\* No children field, a children field, an empty children field.
ChildFieldItems ==
  { Item("1", "B", FALSE, <<>>),
    Item("1", "B", TRUE, DesiredKids),
    Item("1", "B", TRUE, <<>>) }

ChildFieldNodes ==
  { Leaf(ItemText("1", "A")),
    Payload(ItemText("1", "B"), TRUE, ExistingKids),
    Payload(ItemText("1", "B"), TRUE, OtherKids),
    Leaf(ItemText("2", "D")) }

InitDelegate ==
  /\ config \in Configs
  /\ items \in SeqsUpTo(ChildFieldItems, MaxItems)
  /\ \E existing \in SeqsUpTo(ChildFieldNodes, MaxExisting) :
       /\ tree = MakeNodes(existing, 1)
       /\ nextUid = 1 + SizeAll(existing)
  /\ newChildren = <<>>
  /\ pass = "none"
  /\ pc = "idle"
  /\ frame = NoFrame
  /\ stats = NoStats
  /\ sync = NoSync
  /\ inflight = NoCall
  /\ events = <<>>
  /\ outcome = <<>>

SpecDelegate == InitDelegate /\ [][Next]_vars

\* Item n matches a node with the payload's text and other children.
UnequalSameText(n) ==
  /\ Matched(n)
  /\ MatchedNode(n).text = BuildBlock(items[n]).text
  /\ ~SameTree(MatchedNode(n), BuildBlock(items[n]))

\* The updateBlock calls on a uid while item n was handled.
UpdatesOfItemOn(n, uid) ==
  {x \in CallsOfItem(n) : events[x].op = "update" /\ events[x].uid = uid}

\* C21 (updated counts inequality, not mutation): an item that matches a node
\* with identical text and different children (their number or a child's
\* text) increments updated by one and nothing else, issues no updateBlock on
\* the matched node's uid, and without a children reconciler issues no
\* backend call at all.
C21_UpdatedCountsInequality ==
  InReconcile =>
    \A n \in DOMAIN items :
      (Reported(n) /\ UnequalSameText(n)) =>
         /\ ProgressStats(n) = [StatsBefore(n) EXCEPT !.updated = @ + 1]
         /\ UpdatesOfItemOn(n, MatchedNode(n).uid) = {}
         /\ ~config.childrenReconciler => CallsOfItem(n) = {}

\* No children reconciler; one item differs from its node in a child's text,
\* the next in the number of children; both were counted as updated.
C21_Witness ==
  /\ ReconcileReturned
  /\ ~config.childrenReconciler
  /\ Len(items) = 2
  /\ \A n \in DOMAIN items : UnequalSameText(n)
  /\ Len(MatchedNode(1).children) = Len(ChildrenOf(BuildBlock(items[1])))
  /\ Len(MatchedNode(2).children) # Len(ChildrenOf(BuildBlock(items[2])))
  /\ stats.updated = 2
  /\ CallIdx = {}


\* The returns of syncChildren while item n was handled.
SyncReturnsOfItem(n) ==
  {x \in DOMAIN events : events[x].op = "sync_return" /\ events[x].item = n}

\* What reconcile itself did for item n before anything else: its text
\* update and the delay after it.
OwnStepsOfItem(n) ==
  {x \in DOMAIN events :
     /\ events[x].item = n
     /\ events[x].by = "reconcile"
     /\ events[x].op \in {"update", "delay"}}

\* What syncChildren did while item n was handled.
SyncStepsOfItem(n) ==
  {x \in DOMAIN events : events[x].item = n /\ events[x].by = "syncChildren"}

\* Item n is matched and unequal, a children reconciler is attached and the
\* payload has a children field.
Delegates(n) ==
  /\ Matched(n)
  /\ ~SameTree(MatchedNode(n), BuildBlock(items[n]))
  /\ config.childrenReconciler
  /\ BuildBlock(items[n]).hasChildren

\* C22 (delegation condition): syncChildren runs for an item exactly once,
\* under the matched node's uid, if and only if the item is matched and
\* unequal, a children reconciler is attached and the payload has a children
\* field, an empty list included; it runs after the item's text update and
\* its delay, and never for a skipped or a created item.
C22_DelegationCondition ==
  InReconcile =>
    /\ pc = "sync" =>
         /\ Delegates(frame.i)
         /\ sync.caller = "reconcile"
         /\ sync.parentUid = MatchedNode(frame.i).uid
    /\ \A n \in DOMAIN items :
         /\ Reported(n) =>
              /\ Cardinality(SyncReturnsOfItem(n)) = IF Delegates(n) THEN 1 ELSE 0
              /\ \A x \in SyncReturnsOfItem(n) : events[x].parent = MatchedNode(n).uid
         /\ \A x \in OwnStepsOfItem(n) : \A y \in SyncStepsOfItem(n) : x < y
         /\ ~Delegates(n) => SyncStepsOfItem(n) = {}

\* An item with an empty children list whose text differs from its node's:
\* the text was updated, then syncChildren ran with the empty list.
C22_Witness ==
  /\ InReconcile
  /\ \E n \in DOMAIN items :
       /\ Reported(n)
       /\ items[n].hasChildren
       /\ items[n].children = <<>>
       /\ Cardinality(OwnStepsOfItem(n)) = 2
       /\ Cardinality(SyncReturnsOfItem(n)) = 1


\* The reads of the existing children in the current pass.
FetchIdx == {x \in DOMAIN events : events[x].op = "fetch"}

\* The identifier map of what the pass's read returned.
FetchedMap == BuildExistingMap(events[1].result)

\* What a read with identifier map m says of item n: the node it matches, if
\* any, and whether the payload equals it.
FetchedMatch(m, n) == MapHas(m, ExtractId(items[n]))
FetchedNode(m, n) == MapGet(m, ExtractId(items[n]))
FetchedEqual(m, n) == FetchedMatch(m, n) /\ SameTree(FetchedNode(m, n), BuildBlock(items[n]))

\* The uids removeObsolete may delete according to the read.
FetchedOrphanUids(m) ==
  {m[e].node.uid :
     e \in {d \in DOMAIN m : m[d].key \notin ItemIds /\ ~Preserved(m[d].node)}}

\* The calls reconcile itself issued (not syncChildren).
OwnCalls == {x \in CallIdx : events[x].by = "reconcile"}

\* C23 (single fetch as authority): a reconcile pass reads the existing
\* children exactly once, before any mutation, and what it does for each item
\* (skip, update or create, the node updated, the children handed to
\* syncChildren) and for each orphan follows from that read alone, whatever
\* the pass has changed in the backend since.
C23_SingleFetchAuthority ==
  InReconcile =>
    LET m == FetchedMap
    IN /\ FetchIdx = {1}
       /\ \A n \in DOMAIN items :
            Reported(n) =>
              LET before == StatsBefore(n)
                  after == ProgressStats(n)
              IN /\ after.skipped = before.skipped + 1 <=> FetchedEqual(m, n)
                 /\ after.updated = before.updated + 1
                      <=> (FetchedMatch(m, n) /\ ~FetchedEqual(m, n))
                 /\ after.created = before.created + 1 <=> ~FetchedMatch(m, n)
       /\ \A x \in OwnCalls :
            /\ events[x].op = "update" =>
                 /\ FetchedMatch(m, events[x].item)
                 /\ events[x].uid = FetchedNode(m, events[x].item).uid
            /\ events[x].op = "create" => ~FetchedMatch(m, events[x].item)
            /\ events[x].op = "delete" => events[x].uid \in FetchedOrphanUids(m)
       /\ pc = "sync" =>
            /\ FetchedMatch(m, frame.i)
            /\ sync.existingChildren = FetchedNode(m, frame.i).children

\* Two items with one id that the read did not find: the second is created
\* too, although the backend holds the first one's node by then.
C23_Witness ==
  /\ ReconcileReturned
  /\ Len(items) = 2
  /\ ExtractId(items[1]) = ExtractId(items[2])
  /\ ~FetchedMatch(FetchedMap, 2)
  /\ MapHas(BuildExistingMap(tree), ExtractId(items[2]))
  /\ stats.created = 2


\* ----------------------------------------------------- the batch size
\* reconcile under each yieldBatchSize from 1 to the library default.

PacingConfigs ==
  [entry : {"reconcile"}, childrenReconciler : {TRUE}, preserveWhen : {FALSE},
   isSpecialBlock : {TRUE}, yieldBatchSize : 1..DEFAULT_YIELD_BATCH_SIZE,
   logger : {FALSE}]

InitPacing ==
  /\ config \in PacingConfigs
  /\ items \in SeqsUpTo(ItemSet, MaxItems)
  /\ \E existing \in SeqsUpTo(NodeSet, MaxExisting) :
       /\ tree = MakeNodes(existing, 1)
       /\ nextUid = 1 + SizeAll(existing)
  /\ newChildren = <<>>
  /\ pass = "none"
  /\ pc = "idle"
  /\ frame = NoFrame
  /\ stats = NoStats
  /\ sync = NoSync
  /\ inflight = NoCall
  /\ events = <<>>
  /\ outcome = <<>>

SpecPacing == InitPacing /\ [][Next]_vars

\* The top-level orphan deletes of the current pass.
OrphanDeletes == {x \in OwnCalls : events[x].op = "delete"}

\* What the pass did for its items: every step of an item's round.
ItemSteps == {x \in DOMAIN events : events[x].item >= 1}

\* C24 (deletion comes last): every top-level orphan deleteBlock of a
\* reconcile pass is issued after the handling and the onProgress call of the
\* last item; no orphan is deleted while items remain.
C24_DeletionComesLast ==
  InReconcile =>
    /\ pc \in {"obsolete", "delete_call", "delete_delay", "delete_yield"}
         => frame.i > Len(items)
    /\ \A x \in OrphanDeletes :
         /\ \A n \in DOMAIN items : Reported(n)
         /\ \A y \in ItemSteps : y < x

\* Two items handled with a create, then an orphan deleted.
C24_Witness ==
  /\ ReconcileReturned
  /\ Len(items) = 2
  /\ stats.created >= 1
  /\ OrphanDeletes # {}
  /\ stats.deleted >= 1


\* The items onProgress has been called for.
ReportedItems == {n \in DOMAIN items : Reported(n)}

\* The yields of the item loop in item n's round.
YieldsOfItem(n) ==
  {x \in DOMAIN events :
     events[x].op = "yield" /\ events[x].by = "reconcile" /\ events[x].item = n}

\* The mutation delays in item n's round, syncChildren's included.
DelaysOfItem(n) == {x \in DOMAIN events : events[x].op = "delay" /\ events[x].item = n}

\* Item n's round incremented skipped.
SkippedItem(n) == ProgressStats(n).skipped = StatsBefore(n).skipped + 1

\* C25 (top-level yield policy): the item loop's operation counter advances
\* by exactly one per item, skipped items included; the loop yields after the
\* k-th item, just before its onProgress call, exactly when k is a multiple
\* of yieldBatchSize; a skipped item causes no mutation delay.
C25_TopLevelYieldPolicy ==
  InReconcile =>
    /\ frame.operationCount =
         Cardinality(ReportedItems) + (IF pc = "yield" THEN 1 ELSE 0)
    /\ \A n \in ReportedItems :
         /\ Cardinality(YieldsOfItem(n)) =
              IF n % config.yieldBatchSize = 0 THEN 1 ELSE 0
         /\ \A x \in YieldsOfItem(n) :
              events[x + 1].op = "progress" /\ events[x + 1].item = n
         /\ SkippedItem(n) => DelaysOfItem(n) = {}

\* A batch size of 2 and two items: the first is skipped without a yield,
\* the loop yields after the second.
C25_Witness ==
  /\ ReconcileReturned
  /\ config.yieldBatchSize = 2
  /\ Len(items) = 2
  /\ SkippedItem(1)
  /\ YieldsOfItem(1) = {}
  /\ Cardinality(YieldsOfItem(2)) = 1


\* The desired children syncChildren is through with.
ChildrenHandled ==
  IF sync.j > Len(sync.newChildren) THEN Len(sync.newChildren)
  ELSE sync.j - 1 + (IF sync.pc = "yield" THEN 1 ELSE 0)

\* The deletes of the orphan loop, and those that have resolved and been counted.
OrphanLoopDeletes ==
  {x \in CallIdx : events[x].op = "delete" /\ events[x].child > Len(sync.newChildren)}
OrphansHandled ==
  Cardinality(OrphanLoopDeletes)
    - (IF sync.pc \in {"orphan_call", "orphan_done"} THEN 1 ELSE 0)

\* The yields syncChildren has come back from.
SyncYields == {x \in DOMAIN events : events[x].op = "yield" /\ events[x].by = "syncChildren"}

\* A desired child that is neither a property nor a special block.
IgnoredChild(child) ==
  /\ ExtractKey(child.text) = Absent
  /\ ~(config.isSpecialBlock /\ IsSpecialBlock(child.text))

\* C26 (property-reconciler yield policy): syncChildren's operation counter
\* is the number of desired children handled, ignored ones included, plus
\* the number of orphans deleted, one count across both loops; it has yielded
\* once for every multiple of the library default 3 the counter has reached,
\* whatever yieldBatchSize is configured.
C26_SyncYieldPolicy ==
  (InDirectSync /\ sync.pc \notin {"none", "rejected"}) =>
    /\ sync.operationCount = ChildrenHandled + OrphansHandled
    /\ Cardinality(SyncYields) + (IF sync.pc = "yield" THEN 1 ELSE 0)
         = sync.operationCount \div DEFAULT_YIELD_BATCH_SIZE

\* yieldBatchSize is not 3; two desired children, one of them ignored, and
\* one orphan: the one yield came after the orphan's delete.
C26_Witness ==
  /\ InDirectSync
  /\ sync.pc = "returned"
  /\ config.yieldBatchSize # DEFAULT_YIELD_BATCH_SIZE
  /\ Len(sync.newChildren) = 2
  /\ \E c \in DOMAIN sync.newChildren : IgnoredChild(sync.newChildren[c])
  /\ Cardinality(OrphanLoopDeletes) = 1
  /\ Cardinality(SyncYields) = 1
  /\ \A x \in SyncYields : \A y \in OrphanLoopDeletes : y < x


\* -------------------------------------------------------------- duplicates
\* Existing nodes that share an id under reconcile, existing children that
\* share a key under a direct syncChildren.

DuplicateConfigs ==
  [entry : {"reconcile", "syncChildren"}, childrenReconciler : {TRUE},
   preserveWhen : {FALSE}, isSpecialBlock : {TRUE},
   yieldBatchSize : {ConfiguredYieldBatchSize}, logger : {FALSE}]

InitDuplicates ==
  /\ config \in DuplicateConfigs
  /\ \/ /\ config.entry = "reconcile"
        /\ items \in SeqsUpTo(ItemSet, MaxItems)
        /\ newChildren = <<>>
        /\ \E existing \in SeqsUpTo(NodeSet, MaxExisting) :
             /\ tree = MakeNodes(existing, 1)
             /\ nextUid = 1 + SizeAll(existing)
     \/ /\ config.entry = "syncChildren"
        /\ items = <<>>
        /\ newChildren \in SeqsUpTo(NewChildSet, MaxNewChildren)
        /\ \E existing \in SeqsUpTo(ChildSet, MaxExistingChildren) :
             /\ tree = MakeNodes(<<Payload(ItemText("1", "A"), TRUE, existing)>>, 1)
             /\ nextUid = 2 + SizeAll(existing)
  /\ pass = "none"
  /\ pc = "idle"
  /\ frame = NoFrame
  /\ stats = NoStats
  /\ sync = NoSync
  /\ inflight = NoCall
  /\ events = <<>>
  /\ outcome = <<>>

NextDuplicates == Next \/ StartSyncChildren

SpecDuplicates == InitDuplicates /\ [][NextDuplicates]_vars

\* The fetched top-level nodes that a later fetched node shares its id with.
EarlierDuplicates ==
  {n \in DOMAIN frame.existingNodes :
     /\ ExtractIdFromBlock(frame.existingNodes[n]) # Absent
     /\ \E m \in DOMAIN frame.existingNodes :
          /\ m > n
          /\ ExtractIdFromBlock(frame.existingNodes[m])
               = ExtractIdFromBlock(frame.existingNodes[n])}

\* The same among the existing children handed to syncChildren, by key.
EarlierDuplicateChildren ==
  {c \in DOMAIN sync.existingChildren :
     /\ ExtractKey(sync.existingChildren[c].text) # Absent
     /\ \E d \in DOMAIN sync.existingChildren :
          /\ d > c
          /\ ExtractKey(sync.existingChildren[d].text)
               = ExtractKey(sync.existingChildren[c].text)}

\* The updateBlock and deleteBlock calls of the current pass on a uid.
TouchesOf(uid) ==
  {x \in CallIdx : events[x].op \in {"update", "delete"} /\ events[x].uid = uid}

\* The last of a sequence of nodes whose text yields the key by extract.
LastWith(nodes, Extract(_), key) ==
  nodes[CHOOSE n \in DOMAIN nodes :
          /\ Extract(nodes[n]) = key
          /\ \A m \in DOMAIN nodes : Extract(nodes[m]) = key => m <= n]

ChildKey(child) == ExtractKey(child.text)

\* C27 (last duplicate wins): of several fetched top-level nodes with one id
\* the identifier map tracks the last, and of several existing children with
\* one key the key map tracks the last; an earlier duplicate is never updated
\* and never deleted by the pass, whether or not its id or key is asked for.
C27_LastDuplicateWins ==
  /\ InReconcile =>
       /\ \A e \in DOMAIN frame.existingMap :
            frame.existingMap[e].node
              = LastWith(frame.existingNodes, ExtractIdFromBlock, frame.existingMap[e].key)
       /\ \A n \in EarlierDuplicates : TouchesOf(frame.existingNodes[n].uid) = {}
  /\ (InDirectSync /\ sync.pc # "none") =>
       /\ \A e \in DOMAIN sync.existingPropsMap :
            sync.existingPropsMap[e].node
              = LastWith(sync.existingChildren, ChildKey, sync.existingPropsMap[e].key)
       /\ \A c \in EarlierDuplicateChildren : TouchesOf(sync.existingChildren[c].uid) = {}

\* Two fetched nodes with one id that no item has: the pass deleted the last
\* and the first is still under the parent.
C27_Witness ==
  /\ ReconcileReturned
  /\ pass = "first"
  /\ Cardinality(EarlierDuplicates) = 1
  /\ \A n \in EarlierDuplicates :
       /\ ExtractIdFromBlock(frame.existingNodes[n]) \notin ItemIds
       /\ \E t \in DOMAIN tree : tree[t].uid = frame.existingNodes[n].uid
  /\ stats.deleted = 1


\* Desired children i < j carry one key, i is the first to carry it, and an
\* existing child has the key.
DuplicateDesired(i, j) ==
  /\ i < j
  /\ DesiredKey(i) # Absent
  /\ DesiredKey(i) = DesiredKey(j)
  /\ TrackedAt(i)

\* The createBlock calls of the current pass for a key.
CreatesWithKey(key) ==
  {x \in CallIdx : events[x].op = "create" /\ ExtractKey(events[x].payload.text) = key}

\* C28 (duplicate desired keys): when two desired children carry the same
\* key and an existing child is tracked for it, the first is matched against
\* the existing child (no call, or one updateBlock on it), every later one is
\* taken as not found and issues one createBlock; the call returns with at
\* least one create for the key and has not deleted the existing child.
C28_DuplicateDesiredKeys ==
  (InDirectSync /\ sync.pc = "returned") =>
    \A i, j \in DOMAIN sync.newChildren :
      DuplicateDesired(i, j) =>
        LET existing == TrackedChild(DesiredKey(i))
        IN /\ \A x \in CallsOfChild(i) :
                events[x].op = "update" /\ events[x].uid = existing.uid
           /\ Cardinality(CallsOfChild(i)) =
                IF existing.text = sync.newChildren[i].text THEN 0 ELSE 1
           /\ \E x \in CallIdx :
                /\ CallsOfChild(j) = {x}
                /\ events[x].op = "create"
                /\ events[x].uid = sync.parentUid
                /\ events[x].payload = sync.newChildren[j]
           /\ CreatesWithKey(DesiredKey(i)) # {}
           /\ sync.stats.created >= 1
           /\ \A x \in CallIdx : events[x].op = "delete" => events[x].uid # existing.uid

\* The key twice among the desired children with different values and once
\* among the existing ones: one update, one create, and another existing
\* property deleted as an orphan.
C28_Witness ==
  /\ InDirectSync
  /\ sync.pc = "returned"
  /\ Len(sync.newChildren) = 2
  /\ DuplicateDesired(1, 2)
  /\ sync.newChildren[1] # sync.newChildren[2]
  /\ sync.stats.updated = 1
  /\ sync.stats.created = 1
  /\ sync.stats.deleted = 1


\* The top-level deletes whose call and delay are over.
DeletesCompleted ==
  Cardinality(OrphanDeletes)
    - (IF pc \in {"delete_call", "delete_delay"} THEN 1 ELSE 0)

\* The counters of a stats record.
Counters == {"skipped", "created", "updated", "deleted"}

\* The onProgress calls of the current pass.
ProgressIdxs == {x \in DOMAIN events : events[x].op = "progress"}

\* C29 (live deleted counter): while reconcile deletes orphans, once a delete
\* and its delay are over the deleted field of the stats record equals the
\* number of top-level deletes completed so far; and no counter of the record
\* ever decreases during the call.
C29_LiveDeletedCounter ==
  (InReconcile /\ pc # "rejected") =>
    /\ stats.deleted = DeletesCompleted
    /\ \A x, y \in ProgressIdxs :
         x < y => \A c \in Counters : events[x].stats[c] <= events[y].stats[c]
    /\ \A x \in ProgressIdxs : \A c \in Counters : events[x].stats[c] <= stats[c]


\* ---------------------------------------------------------------- liveness
\* The same runs with the scheduling the host gives: a continuation that can
\* run does run (the event loop, its timers and its scheduler), and a backend
\* call that is outstanding is settled.

ProgramStep ==
  \/ ProcessItem
  \/ UpdateDelay
  \/ AfterSync
  \/ Created
  \/ ItemYield
  \/ RemoveObsoleteDelete
  \/ DeleteDelay
  \/ DeleteYield
  \/ ReconcileReturn
  \/ SyncNext

\* The nodes and children of these runs: enough for every loop to turn.
LiveNodes == {Payload(ItemText("1", "B"), TRUE, ExistingKids), Leaf(ItemText("2", "D"))}
LiveChildren == {Leaf(PropText("p", "y")), Leaf(PropText("q", "x")), Leaf(SpecialText("c"))}
LiveNewChildren == {Leaf(PropText("p", "x")), Leaf(SpecialText("c")), Leaf(PlainText("n"))}

InitLive ==
  /\ config \in DuplicateConfigs
  /\ \/ /\ config.entry = "reconcile"
        /\ items \in SeqsUpTo(ItemSet, MaxItems)
        /\ newChildren = <<>>
        /\ \E existing \in SeqsUpTo(LiveNodes, MaxExisting) :
             /\ tree = MakeNodes(existing, 1)
             /\ nextUid = 1 + SizeAll(existing)
     \/ /\ config.entry = "syncChildren"
        /\ items = <<>>
        /\ newChildren \in SeqsUpTo(LiveNewChildren, MaxNewChildren)
        /\ \E existing \in SeqsUpTo(LiveChildren, MaxExistingChildren) :
             /\ tree = MakeNodes(<<Payload(ItemText("1", "A"), TRUE, existing)>>, 1)
             /\ nextUid = 2 + SizeAll(existing)
  /\ pass = "none"
  /\ pc = "idle"
  /\ frame = NoFrame
  /\ stats = NoStats
  /\ sync = NoSync
  /\ inflight = NoCall
  /\ events = <<>>
  /\ outcome = <<>>

SpecLive ==
  /\ InitLive
  /\ [][NextDuplicates]_vars
  /\ WF_vars(ProgramStep)
  /\ WF_vars(BackendNext)

\* A call of reconcile or syncChildren is under way; it has ended.
PassRunning == pc \notin {"idle", "returned", "rejected"}
PassEnded == pc \in {"returned", "rejected"}

\* The calls that returned their stats so far.
Returns == {x \in DOMAIN outcome : outcome[x].status = "returned"}

\* C30 (termination): when every backend call, delay and yield settles, a
\* call of reconcile or syncChildren that has started eventually returns or
\* rejects; and while a backend call is outstanding the only thing that
\* happens is its settlement: no other backend call is issued and the pass
\* does not return.
C30_Termination ==
  /\ PassRunning ~> PassEnded
  /\ [][inflight.op # "none" =>
          /\ inflight'.op = "none"
          /\ CallIdx' = CallIdx
          /\ Returns' = Returns
          /\ pc' # "returned"]_vars

\* A reconcile that returned after three backend calls and a yield.
C30_Witness ==
  /\ ReconcileReturned
  /\ Cardinality(CallIdx) >= 3
  /\ \E x \in DOMAIN events : events[x].op = "yield"


\* ------------------------------------------------------- handles of mutation
\* The uids a pass may name, according to what it read at its start.

\* The fetched nodes that the id map tracks and an item names.
MatchedNodes(m) == {m[e].node : e \in {d \in DOMAIN m : m[d].key \in ItemIds}}

\* The uids of the nodes the id map tracks.
TrackedUids(m) == {m[e].node.uid : e \in DOMAIN m}

\* The uids of the direct children of the matched nodes.
MatchedChildUids(m) ==
  UNION {{nd.children[c].uid : c \in DOMAIN nd.children} : nd \in MatchedNodes(m)}

RECURSIVE UidsIn(_)
\* Every uid in a forest.
UidsIn(nodes) ==
  IF nodes = <<>> THEN {}
  ELSE {Head(nodes).uid} \cup UidsIn(Head(nodes).children) \cup UidsIn(Tail(nodes))

\* C31 (mutations target only fetched uids): every updateBlock and deleteBlock
\* call of a reconcile pass targets a uid that the initial fetch returned, a
\* tracked top-level node or a direct child of a matched node, so never a node
\* the pass created itself; and the parent of every createBlock call is the
\* reconcile parent or the uid of a matched node.
C31_MutationsTargetFetchedUids ==
  InReconcile =>
    LET m == FetchedMap
        targets == TrackedUids(m) \cup MatchedChildUids(m)
        parents == {ParentUid} \cup {nd.uid : nd \in MatchedNodes(m)}
    IN /\ targets \subseteq UidsIn(events[1].result)
       /\ \A x \in CallIdx :
            /\ events[x].op \in {"update", "delete"} => events[x].uid \in targets
            /\ events[x].op = "create" => events[x].uid \in parents

\* A pass that returned after creating under a matched node, updating one of
\* its children, deleting another and deleting a top-level orphan, with the
\* same id given twice so that the matched node is handled again after the
\* pass has created a child under it.
C31_Witness ==
  /\ ReconcileReturned
  /\ Len(items) = 2 /\ ExtractId(items[1]) = ExtractId(items[2])
  /\ \E x \in CallIdx : events[x].op = "create" /\ events[x].uid # ParentUid
                          /\ events[x].item = 1
  /\ \E x \in CallIdx : events[x].op = "update" /\ events[x].by = "syncChildren"
                          /\ events[x].item = 2
  /\ \E x \in CallIdx : events[x].op = "delete" /\ events[x].by = "syncChildren"
  /\ \E x \in CallIdx : events[x].op = "delete" /\ events[x].by = "reconcile"


\* --------------------------------------------------------- the item counters

\* The items a stats record accounts for.
Accounted(st) == st.skipped + st.created + st.updated

\* What item n added to each of the three counters.
Increments(before, after) ==
  <<after.skipped - before.skipped, after.created - before.created,
    after.updated - before.updated>>

\* C32 (counter partition): at every onProgress call skipped + created +
\* updated is the number of items processed so far and deleted is 0; each
\* item adds exactly one to exactly one of the three counters; at a successful
\* return skipped + created + updated is total.
C32_CounterPartition ==
  InReconcile =>
    /\ \A x \in ProgressIdx :
         /\ Accounted(events[x].stats) = events[x].item
         /\ events[x].stats.deleted = 0
    /\ \A n \in DOMAIN items :
         Reported(n) =>
           Increments(StatsBefore(n), ProgressStats(n))
             \in {<<1, 0, 0>>, <<0, 1, 0>>, <<0, 0, 1>>}
    /\ Accounted(stats) \in {CurrentItem - 1, CurrentItem} \/ CurrentItem = 0
    /\ pc = "returned" => Accounted(stats) = stats.total

\* A pass that returned with one item skipped, one updated and an orphan
\* deleted after both had been reported.
C32_Witness ==
  /\ ReconcileReturned
  /\ stats.skipped = 1 /\ stats.updated = 1 /\ stats.deleted >= 1
  /\ Cardinality(ProgressIdx) = 2


\* ------------------------------------------------- mutations of deleted nodes

\* The calls that name uid after the call at x did.
LaterCallsOn(x, uid) ==
  {y \in CallIdx : y > x /\ events[y].op \in {"update", "delete"} /\ events[y].uid = uid}

\* C33 (no double mutation of a deleted node): within one reconcile pass, the
\* nested syncChildren calls and item lists with a repeated id included, no
\* uid is the target of deleteBlock more than once and no updateBlock targets
\* a uid that a deleteBlock of the pass targeted before.
C33_NoMutationOfDeleted ==
  InReconcile =>
    \A x \in CallIdx :
      events[x].op = "delete" => LaterCallsOn(x, events[x].uid) = {}


\* ------------------------------------------------------ nodes marked done
\* reconcile, with and without preserveWhen, over nodes that preserveWhen
\* holds of and items that name them.

\* The items of a run, and one whose content is the done marker's.
PreserveItems == ItemSet \cup {Item("1", "D", FALSE, <<>>)}

\* Done nodes with and without children, and a node that is not done.
PreserveNodes ==
  { Leaf(ItemText("1", "D")),
    Payload(ItemText("2", "D"), TRUE, ExistingKids),
    Leaf(ItemText("2", "A")) }

PreserveConfigs ==
  [entry : {"reconcile"}, childrenReconciler : {TRUE}, preserveWhen : BOOLEAN,
   isSpecialBlock : {TRUE}, yieldBatchSize : {ConfiguredYieldBatchSize},
   logger : {FALSE}]

InitPreserve ==
  /\ config \in PreserveConfigs
  /\ items \in SeqsUpTo(PreserveItems, MaxItems)
  /\ \E existing \in SeqsUpTo(PreserveNodes, MaxExisting) :
       /\ tree = MakeNodes(existing, 1)
       /\ nextUid = 1 + SizeAll(existing)
  /\ newChildren = <<>>
  /\ pass = "none"
  /\ pc = "idle"
  /\ frame = NoFrame
  /\ stats = NoStats
  /\ sync = NoSync
  /\ inflight = NoCall
  /\ events = <<>>
  /\ outcome = <<>>

SpecPreserve == InitPreserve /\ [][Next]_vars

\* ------------------------------------------------- preserveWhen and updates

\* The text updates reconcile itself issued for item n.
OwnUpdatesOf(n) ==
  {x \in CallsOfItem(n) : events[x].op = "update" /\ events[x].by = "reconcile"}

\* C34 (preserveWhen guards deletion only): preserveWhen bears on tracked
\* nodes whose id is not in the item list and on nothing else; an item whose
\* id matches a node that preserveWhen holds of is skipped on equality and
\* updated on inequality, with the text update a differing text calls for,
\* exactly as without preserveWhen.
C34_PreserveGuardsDeletionOnly ==
  InReconcile =>
    LET m == FetchedMap
    IN \A n \in DOMAIN items :
         (Reported(n) /\ FetchedMatch(m, n) /\ Preserved(FetchedNode(m, n))) =>
            LET node == FetchedNode(m, n)
                block == BuildBlock(items[n])
                before == StatsBefore(n)
                after == ProgressStats(n)
            IN /\ DeletesOf(node.uid) = {}
               /\ IF SameTree(node, block)
                  THEN /\ after = [before EXCEPT !.skipped = @ + 1]
                       /\ CallsOfItem(n) = {}
                  ELSE /\ after = [before EXCEPT !.updated = @ + 1]
                       /\ IF node.text # block.text
                          THEN \E x \in OwnUpdatesOf(n) :
                                 /\ OwnUpdatesOf(n) = {x}
                                 /\ events[x].uid = node.uid
                                 /\ events[x].payload.text = block.text
                          ELSE OwnUpdatesOf(n) = {}

\* preserveWhen is configured and holds of two nodes; one item names the first
\* with its own text and is skipped, the other names the second with another
\* text: that node's text was updated and the item counted as updated.
C34_Witness ==
  /\ ReconcileReturned
  /\ config.preserveWhen
  /\ \A n \in DOMAIN items :
       /\ FetchedMatch(FetchedMap, n)
       /\ PreserveWhen(FetchedNode(FetchedMap, n))
  /\ \E n \in DOMAIN items : OwnUpdatesOf(n) # {}
  /\ stats.updated = 1
  /\ stats.skipped = 1


\* ------------------------------------------------------- the child counters

\* The stats the syncChildren call of item n returned.
ChildStatsOf(n) == events[CHOOSE x \in SyncReturnsOfItem(n) : TRUE].stats

\* The top-level creates up to item n.
TopLevelCreatesUpTo(n) == {x \in TopLevelCreates : events[x].item <= n}

\* C35 (child stats stay separate): what a nested syncChildren call returns
\* is not added to the top-level stats; an item that went through syncChildren
\* changes the top-level record by updated + 1 and nothing else, whatever its
\* children cost, and the top-level created and deleted count the top-level
\* nodes created and deleted.
C35_ChildStatsSeparate ==
  InReconcile =>
    /\ \A n \in DOMAIN items :
         Reported(n) =>
           /\ SyncReturnsOfItem(n) # {} =>
                ProgressStats(n) = [StatsBefore(n) EXCEPT !.updated = @ + 1]
           /\ ProgressStats(n).created = Cardinality(TopLevelCreatesUpTo(n))
    /\ pc = "returned" =>
         /\ stats.created = Cardinality(TopLevelCreates)
         /\ stats.deleted = Cardinality(TopLevelDeletes)

\* A pass that returned updated = 1 and nothing else for one item whose
\* syncChildren call updated a child, created one and deleted two.
C35_Witness ==
  /\ ReconcileReturned
  /\ Len(items) = 1
  /\ SyncReturnsOfItem(1) # {}
  /\ ChildStatsOf(1).updated = 1
  /\ ChildStatsOf(1).created = 1
  /\ ChildStatsOf(1).deleted = 2
  /\ stats = [total |-> 1, skipped |-> 0, created |-> 0, updated |-> 1, deleted |-> 0]


\* ------------------------------------------- special blocks nobody asks for

\* The existing children that isSpecialBlock holds of and that carry no key.
ExistingSpecialTexts ==
  {c \in DOMAIN sync.existingChildren :
     /\ ExtractKey(sync.existingChildren[c].text) = Absent
     /\ IsSpecialBlock(sync.existingChildren[c].text)}

\* The updates and deletes of the call so far.
ChildMutations == {x \in CallIdx : events[x].op \in {"update", "delete"}}

\* C36 (existing special blocks survive when none is desired): in a
\* syncChildren call whose desired children contain no special child, no
\* existing special child is deleted or updated, whatever the desired
\* properties are; it is still under the parent, as it was, and the deletes
\* counted are those of the orphaned properties.
C36_SpecialsSurvive ==
  (InDirectSync /\ DesiredSpecials = {}) =>
    /\ \A c \in ExistingSpecialTexts :
         /\ \A x \in ChildMutations : events[x].uid # sync.existingChildren[c].uid
         /\ \E t \in DOMAIN DirectParent.children :
              DirectParent.children[t] = sync.existingChildren[c]
    /\ sync.pc = "returned" => sync.stats.deleted = Cardinality(OrphanKeys)

\* A call with isSpecialBlock configured that returned after deleting an
\* orphaned property, with an existing special block and no desired one.
C36_Witness ==
  /\ DirectReturned
  /\ config.isSpecialBlock
  /\ DesiredSpecials = {}
  /\ ExistingSpecialTexts # {}
  /\ sync.newChildren # <<>>
  /\ sync.stats.deleted = 1


\* ------------------------------------------------ several desired specials

\* The creates and the deletes issued while desired child j was handled.
CreatesOfChild(j) == {x \in CallsOfChild(j) : events[x].op = "create"}
DeletesOfChild(j) == {x \in CallsOfChild(j) : events[x].op = "delete"}

\* The first desired special child.
FirstSpecial(j) == \A d \in DesiredSpecials : j <= d

\* An existing special child with the text and the children of desired child j.
HasIdenticalSpecial(j) ==
  \E c \in ExistingSpecials : SameTree(sync.existingChildren[c], sync.newChildren[j])

\* C37 (special children are never skipped): every desired special child
\* syncChildren has handled issued exactly one createBlock, of that child
\* under the parent, an identical existing special child notwithstanding; the
\* existing special children are deleted, each once, while the first desired
\* special child is handled and at no other time; a call that returns has
\* counted every create, the k special ones among them.
C37_SpecialsNeverSkipped ==
  InDirectSync =>
    /\ \A j \in DesiredSpecials :
         ChildDone(j) =>
           /\ \E x \in CreatesOfChild(j) :
                /\ CreatesOfChild(j) = {x}
                /\ events[x].uid = sync.parentUid
                /\ events[x].payload = sync.newChildren[j]
                /\ \A y \in DeletesOfChild(j) : y < x
           /\ IF FirstSpecial(j)
              THEN /\ Cardinality(DeletesOfChild(j)) = Cardinality(ExistingSpecials)
                   /\ \A c \in ExistingSpecials :
                        Cardinality(DeletesOf(sync.existingChildren[c].uid)) = 1
              ELSE DeletesOfChild(j) = {}
    /\ sync.pc = "returned" =>
         /\ sync.stats.created = Cardinality({x \in CallIdx : events[x].op = "create"})
         /\ sync.stats.created >= Cardinality(DesiredSpecials)

\* Two desired special children against two existing ones that are identical
\* to them in text and children: both existing ones deleted, two created.
C37_Witness ==
  /\ DirectReturned
  /\ Cardinality(DesiredSpecials) = 2
  /\ Cardinality(ExistingSpecials) = 2
  /\ \A j \in DesiredSpecials : HasIdenticalSpecial(j)
  /\ sync.stats.created = 2
  /\ sync.stats.deleted = 2
  /\ sync.stats.skipped = 0


\* ------------------------------------------------------ repeated item ids

\* The items that share the id of item n, item n included.
SameIdItems(n) == {k \in DOMAIN items : ExtractId(items[k]) = ExtractId(items[n])}

\* The top-level creates of blocks that carry id.
CreatesOfId(id) ==
  {x \in TopLevelCreates : ExtractIdFromBlock(events[x].payload) = id}

\* C38 (duplicate item ids are not deduplicated): of k items with one id that
\* no tracked fetched node has, each causes its own createBlock of its own
\* payload and adds one to created, k creates in all; when a tracked node has
\* the id, each of the k items is compared against that same fetched node and
\* counted on its own as skipped or updated.
C38_DuplicateItemIds ==
  InReconcile =>
    LET m == FetchedMap
    IN /\ \A n \in DOMAIN items :
            (Reported(n) /\ Cardinality(SameIdItems(n)) > 1) =>
               LET before == StatsBefore(n)
                   after == ProgressStats(n)
               IN IF ~FetchedMatch(m, n)
                  THEN /\ after = [before EXCEPT !.created = @ + 1]
                       /\ \E x \in TopLevelCreates :
                            /\ CallsOfItem(n) = {x}
                            /\ events[x].payload = BuildBlock(items[n])
                  ELSE /\ CallsOfItem(n) \cap TopLevelCreates = {}
                       /\ after = IF FetchedEqual(m, n)
                                  THEN [before EXCEPT !.skipped = @ + 1]
                                  ELSE [before EXCEPT !.updated = @ + 1]
                       /\ \A x \in OwnUpdatesOf(n) :
                            events[x].uid = FetchedNode(m, n).uid
       /\ (pc = "sync" /\ Cardinality(SameIdItems(frame.i)) > 1) =>
            /\ FetchedMatch(m, frame.i)
            /\ sync.parentUid = FetchedNode(m, frame.i).uid
            /\ sync.existingChildren = FetchedNode(m, frame.i).children
       /\ pc = "returned" =>
            \A n \in DOMAIN items :
              ~FetchedMatch(m, n) =>
                 Cardinality(CreatesOfId(ExtractId(items[n])))
                   = Cardinality(SameIdItems(n))

\* Two items with one id and different contents, no node with that id
\* fetched: both were created and the parent now holds two nodes with the id.
C38_Witness ==
  /\ ReconcileReturned
  /\ Len(items) = 2
  /\ SameIdItems(1) = {1, 2}
  /\ items[1] # items[2]
  /\ ~FetchedMatch(FetchedMap, 1)
  /\ Cardinality(CreatesOfId(ExtractId(items[1]))) = 2
  /\ stats.created = 2
  /\ Cardinality({t \in DOMAIN tree :
                    ExtractIdFromBlock(tree[t]) = ExtractId(items[1])}) = 2


\* ------------------------------------------------ syncChildren run again

\* The desired children have pairwise distinct keys.
DistinctKeys(children) ==
  \A i, j \in DOMAIN children :
    ExtractKey(children[i].text) = ExtractKey(children[j].text) => i = j

\* The existing children the first syncChildren call was handed.
FirstExisting == outcome[1].existing

\* A second syncChildren, on the children the first one left, with the same
\* desired list; the children the first call found and the desired children
\* are all properties, the desired ones with pairwise distinct keys.
SecondPropertySync ==
  /\ InDirectSync
  /\ pass = "second"
  /\ AllProperties(FirstExisting)
  /\ AllProperties(sync.newChildren)
  /\ DistinctKeys(sync.newChildren)

\* What the second call has to do: nothing, and report every desired child
\* as skipped.
SecondSyncIsNoOp ==
  /\ CallIdx = {}
  /\ sync.pc = "returned" =>
       sync.stats = [skipped |-> Len(sync.newChildren), updated |-> 0,
                     created |-> 0, deleted |-> 0]

\* C39 (idempotence of syncChildren): when the existing children are
\* properties and the desired children are properties with pairwise distinct
\* keys, a second syncChildren on what a first, completed one left behind in a
\* faithful backend, with the same desired list, issues no backend call and
\* returns skipped = number of desired children, created = updated = deleted = 0.
C39_SyncIdempotence == SecondPropertySync => SecondSyncIsNoOp

\* C39 as amended: the same when the existing property children have
\* pairwise distinct keys too.  (Of two existing children with one key the
\* first call tracks only the last; when it deletes that one as an orphan,
\* the second call finds the other and deletes it.)
C39_DistinctKeysIdempotence ==
  (SecondPropertySync /\ DistinctKeys(FirstExisting)) => SecondSyncIsNoOp

\* A first call that updated one property and created another, and a second
\* call that returned with both skipped.
C39_Witness ==
  /\ SecondPropertySync
  /\ DistinctKeys(FirstExisting)
  /\ DirectReturned
  /\ Len(outcome) = 2
  /\ outcome[1].stats.updated = 1
  /\ outcome[1].stats.created = 1
  /\ outcome[2].stats.skipped = 2

====
